---- MODULE Spec2Model ----
(***************************************************************************)
(* A model of the two Streamlit dashboards of this repository:             *)
(*   src/main.py          the inventory dashboard                          *)
(*   src/sales-report.py  the sales dashboard                              *)
(* Strings the code inspects character by character (store names, item     *)
(* names, the text of a count) are sequences of one-character strings.     *)
(* An optional field is a sequence of length 0 (absent, or null in a       *)
(* DataFrame cell) or 1 (the value).                                       *)
(***************************************************************************)
EXTENDS Integers, Sequences, FiniteSets, TLC

VARIABLES
    app,            \* which script this process runs: "inventory" or "sales"
    now,            \* the wall clock, in seconds
    cache,          \* the st.cache_data entry of the fetch function
    pc,             \* position of the current script run
    requested,      \* an HTTP request was issued in the current run
    ui,             \* the messages shown to the user in the current run
    stores_data,    \* what the fetch function returned to the script
    df,             \* the normalized table of the current run
    normalized,     \* the Normalizer built a table in the current run
    lastReq,        \* time of the last HTTP request, -1 before the first
    lastNorm,       \* time the Normalizer last built a table, -1 before
    escaped,        \* the exception that ended the current run, or "none"
    outcome,        \* the answer to the HTTP request of the current run
    ticks,          \* how often the clock has advanced
    payload,        \* harness: the raw inventory payload being built
    norm,           \* harness: the result of process_store_data
    raw_df,         \* harness: its local df when the count line is reached
    item_name,      \* harness: the argument of categorize_product
    label,          \* harness: the result of categorize_product
    hpc,            \* harness: "build" or "done"
    selected,       \* the values of the sidebar selectors
    filtered_df,    \* the rows of filtered_df after the filter stage
    page,           \* what the tabs of the current run rendered
    monthly_quantity, \* harness: the monthly totals, in calendar order
    fig_growth,     \* harness: the rows the growth chart is drawn from
    item_totals,    \* harness: the summed measure of each group of a table
    top_products    \* harness: the rows of the top-N table cut from it

runVars == <<app, now, cache, pc, requested, ui, stores_data, df, normalized,
             lastReq, lastNorm, escaped, outcome, ticks>>
harnessVars == <<payload, norm, raw_df, item_name, label, hpc>>
viewVars == <<selected, filtered_df, page, monthly_quantity, fig_growth,
              item_totals, top_products>>
vars == <<app, now, cache, pc, requested, ui, stores_data, df, normalized,
          lastReq, lastNorm, escaped, outcome, ticks,
          payload, norm, raw_df, item_name, label, hpc,
          selected, filtered_df, page, monthly_quantity, fig_growth,
          item_totals, top_products>>

----------------------------------------------------------------------------
(* Bounds of the model *)

MaxStores ==
    2
MaxRecords ==
    2
MaxCountLen ==
    2
MaxCountRecords ==
    2
MaxWords ==
    3
MaxTicks ==
    3

----------------------------------------------------------------------------
(* Strings *)

Whitespace == {" ", "\t"}

RECURSIVE lstrip(_)
lstrip(s) ==
    IF s # <<>> /\ Head(s) \in Whitespace THEN lstrip(Tail(s)) ELSE s

RECURSIVE rstrip(_)
rstrip(s) ==
    IF s # <<>> /\ s[Len(s)] \in Whitespace
    THEN rstrip(SubSeq(s, 1, Len(s) - 1))
    ELSE s

strip(s) == rstrip(lstrip(s))

\* Python's `pat in s` on strings
Contains(s, pat) ==
    \E i \in 1..(Len(s) - Len(pat) + 1) : SubSeq(s, i, i + Len(pat) - 1) = pat

Absent == <<>>
Some(v) == <<v>>

----------------------------------------------------------------------------
(* The inventory Normalizer, src/main.py process_store_data *)

CategoricalFields == {"category", "collection", "gender", "size"}
ItemFields == CategoricalFields \cup {"count", "store_name"}

DigitOf ==
    ("0" :> 0) @@ ("1" :> 1) @@ ("2" :> 2) @@ ("3" :> 3) @@ ("4" :> 4) @@
    ("5" :> 5) @@ ("6" :> 6) @@ ("7" :> 7) @@ ("8" :> 8) @@ ("9" :> 9)

IsDigits(s) == s # <<>> /\ \A i \in 1..Len(s) : s[i] \in DOMAIN DigitOf

RECURSIVE DigitsValue(_)
DigitsValue(s) ==
    IF s = <<>> THEN 0
    ELSE 10 * DigitsValue(SubSeq(s, 1, Len(s) - 1)) + DigitOf[s[Len(s)]]

\* The numeric reading of a text: Some(n), or Absent (NaN) when the text is
\* no number. Integers only: the model has no fractional counts.
ParseNumber(text) ==
    IF text # <<>> /\ Head(text) = "-"
    THEN IF IsDigits(Tail(text)) THEN Some(0 - DigitsValue(Tail(text))) ELSE Absent
    ELSE IF IsDigits(text) THEN Some(DigitsValue(text)) ELSE Absent

\* pd.to_numeric(..., errors="coerce") on one cell. A cell is Absent (the
\* record has no count), or Some([kind, text]): a JSON number or a JSON string.
to_numeric(cell) ==
    IF cell = Absent THEN Absent ELSE ParseNumber(cell[1].text)

\* fillna_astype_int with the fill value 1
fillna_one_astype_int(num) ==
    IF num = Absent THEN 1 ELSE num[1]

\* .fillna(0).astype(int)
fillna_astype_int(num) ==
    IF num = Absent THEN 0 ELSE num[1]

\* item_dict that keeps a store_name the record already has (setdefault)
item_dict_setdefault(item, store_name) ==
    IF item.store_name = Absent
    THEN [item EXCEPT !.store_name = Some(strip(store_name))]
    ELSE item

\* item_dict = item.copy(); item_dict["store_name"] = store_name.strip()
item_dict(item, store_name) ==
    [item EXCEPT !.store_name = Some(strip(store_name))]

RECURSIVE items_of(_, _)
items_of(store_name, items) ==
    IF items = <<>> THEN <<>>
    ELSE <<item_dict(Head(items), store_name)>> \o items_of(store_name, Tail(items))

\* the two nested loops that fill all_items
RECURSIVE all_items(_)
all_items(data) ==
    IF data = <<>> THEN <<>>
    ELSE items_of(Head(data).key, Head(data).items) \o all_items(Tail(data))

\* pd.DataFrame(all_items): the columns are the keys some record has
DataFrame(recs) ==
    [cols |-> {f \in ItemFields : \E i \in 1..Len(recs) : recs[i][f] # Absent},
     rows |-> recs]

\* backfill written as df[f] = df[f].fillna("Unknown") for every frame
backfill_fillna(frame, f) ==
    [cols |-> frame.cols \cup {f},
     rows |-> [i \in 1..Len(frame.rows) |->
                  IF frame.rows[i][f] = Absent
                  THEN [frame.rows[i] EXCEPT ![f] = Some("Unknown")]
                  ELSE frame.rows[i]]]

\* if f not in df.columns: df[f] = "Unknown"
backfill(frame, f) ==
    IF f \notin frame.cols
    THEN [cols |-> frame.cols \cup {f},
          rows |-> [i \in 1..Len(frame.rows) |->
                       [frame.rows[i] EXCEPT ![f] = Some("Unknown")]]]
    ELSE frame

\* df["count"] = pd.to_numeric(df["count"], errors="coerce").fillna(0).astype(int)
coerce_count(frame) ==
    IF "count" \notin frame.cols
    THEN [exc |-> "KeyError", cols |-> {}, rows |-> <<>>]
    ELSE [exc |-> "none", cols |-> frame.cols,
          rows |-> [i \in 1..Len(frame.rows) |->
                      [store_name |-> frame.rows[i].store_name[1],
                       category   |-> frame.rows[i].category,
                       collection |-> frame.rows[i].collection,
                       gender     |-> frame.rows[i].gender,
                       size       |-> frame.rows[i].size,
                       count      |-> fillna_astype_int(
                                          to_numeric(frame.rows[i].count))]]]

\* lines 92-100, the four column defaults
categorical_defaults(frame) ==
    backfill(backfill(backfill(backfill(frame,
        "category"), "collection"), "gender"), "size")

\* the local df when line 103 is reached
frame_before_count(data) == categorical_defaults(DataFrame(all_items(data)))

process_store_data(data) == coerce_count(frame_before_count(data))

----------------------------------------------------------------------------
(* Product categories, src/sales-report.py categorize_product *)

Kimono  == <<"K", "i", "m", "o", "n", "o">>
Gilet   == <<"G", "i", "l", "e", "t">>
TP      == <<"T", "P">>
Trucker == <<"T", "r", "u", "c", "k", "e", "r">>
Jacket  == <<"J", "a", "c", "k", "e", "t">>
Tote    == <<"T", "o", "t", "e">>
Hat     == <<"H", "a", "t">>
Shorts  == <<"S", "h", "o", "r", "t", "s">>
Jeans   == <<"J", "e", "a", "n", "s">>
Skirt   == <<"S", "k", "i", "r", "t">>
Bottle  == <<"B", "o", "t", "t", "l", "e">>
DRESS   == <<"D", "R", "E", "S", "S">>
Dress   == <<"D", "r", "e", "s", "s">>
Space   == <<" ">>

\* An item name is [isstr |-> TRUE, text |-> characters], or a value that is
\* no string (null, a number): [isstr |-> FALSE, text |-> <<>>].
NotAString == [isstr |-> FALSE, text |-> <<>>]
Str(text) == [isstr |-> TRUE, text |-> text]

\* categorize_product with the Gilet test moved above the Kimono test
categorize_product_gilet_first(name) ==
    IF ~name.isstr THEN "Unknown"
    ELSE IF Contains(name.text, Gilet) THEN "Gilet Jacket"
    ELSE IF Contains(name.text, Kimono) THEN "Kimono Jacket"
    ELSE IF Contains(name.text, TP \o Space \o Jacket)
            \/ Contains(name.text, Trucker \o Space \o Jacket)
         THEN "TP/Trucker Jacket"
    ELSE IF Contains(name.text, Tote) THEN "Tote Bag"
    ELSE IF Contains(name.text, Hat) THEN "Campaign Hats"
    ELSE IF Contains(name.text, Shorts) THEN "Shorts"
    ELSE IF Contains(name.text, Jeans) THEN "Jeans"
    ELSE IF Contains(name.text, Skirt) THEN "Skirt"
    ELSE IF Contains(name.text, Bottle) THEN "Bottle Sling"
    ELSE IF Contains(name.text, DRESS) THEN "Dress"
    ELSE "Other"

categorize_product(name) ==
    IF ~name.isstr THEN "Unknown"
    ELSE IF Contains(name.text, Kimono) THEN "Kimono Jacket"
    ELSE IF Contains(name.text, Gilet) THEN "Gilet Jacket"
    ELSE IF Contains(name.text, TP \o Space \o Jacket)
            \/ Contains(name.text, Trucker \o Space \o Jacket)
         THEN "TP/Trucker Jacket"
    ELSE IF Contains(name.text, Tote) THEN "Tote Bag"
    ELSE IF Contains(name.text, Hat) THEN "Campaign Hats"
    ELSE IF Contains(name.text, Shorts) THEN "Shorts"
    ELSE IF Contains(name.text, Jeans) THEN "Jeans"
    ELSE IF Contains(name.text, Skirt) THEN "Skirt"
    ELSE IF Contains(name.text, Bottle) THEN "Bottle Sling"
    ELSE IF Contains(name.text, DRESS) THEN "Dress"
    ELSE "Other"

----------------------------------------------------------------------------
(* Inputs of the harness specifications *)

StoreKeys ==
    { <<"A">>, <<" ", "A", " ">>, <<"\t", "B">>, <<"A", " ", "B", " ">> }

CountChars == {"-", "3", "x"}

CountTexts ==
    UNION { [1..n -> CountChars] : n \in 0..MaxCountLen }

\* the texts JSON accepts as an integer literal
IsJsonInt(text) ==
    LET digits == IF text # <<>> /\ Head(text) = "-" THEN Tail(text) ELSE text
    IN  IsDigits(digits) /\ (Len(digits) > 1 => Head(digits) # "0")

CountCells ==
    {Absent}
    \cup { Some([kind |-> "str", text |-> t]) : t \in CountTexts }
    \cup { Some([kind |-> "num", text |-> t]) : t \in {u \in CountTexts : IsJsonInt(u)} }

Item(cat, col, gen, siz, cnt, sn) ==
    [category |-> cat, collection |-> col, gender |-> gen, size |-> siz,
     count |-> cnt, store_name |-> sn]

Five == Some([kind |-> "str", text |-> <<"5">>])
Three == Some([kind |-> "num", text |-> <<"3">>])

SampleItems ==
    { Item(Absent, Absent, Absent, Absent, Five, Absent),
      Item(Some("Tops"), Absent, Absent, Absent, Five, Absent),
      Item(Absent, Some("Summer"), Absent, Absent, Three, Absent),
      Item(Absent, Absent, Some("Men"), Absent, Five, Absent),
      Item(Absent, Absent, Absent, Some("M"), Three, Absent),
      Item(Some("Tops"), Some("Summer"), Some("Men"), Some("M"), Three, Absent),
      Item(Some("Tops"), Absent, Absent, Absent, Absent, Absent),
      Item(Absent, Absent, Absent, Absent, Three, Some(<<"Z">>)) }

CountItems ==
    { Item(Absent, Absent, Absent, Absent, c, Absent) : c \in CountCells }

NameWords ==
    { Kimono, Gilet, TP, Trucker, Jacket, Tote, Hat, Shorts, Jeans, Skirt,
      Bottle, DRESS, Dress }

NoFrame == [exc |-> "none", cols |-> {}, rows |-> <<>>]
NoRawFrame == [cols |-> {}, rows |-> <<>>]

RECURSIVE RecordCount(_)
RecordCount(data) ==
    IF data = <<>> THEN 0 ELSE Len(Head(data).items) + RecordCount(Tail(data))

RECURSIVE WordCount(_)
WordCount(text) ==
    IF text = <<>> THEN 0
    ELSE (IF Head(text) = " " THEN 1 ELSE 0) + WordCount(Tail(text))

----------------------------------------------------------------------------
(* JSON values and HTTP outcomes *)

\* A JSON value the inventory script handles: k is its type. An object
\* carries the store mapping p; a list its length n; a number its value n; a
\* non-empty string carries dec, what json.loads makes of its text: "bad"
\* (JSONDecodeError) or the type of the decoded value, with p and n the
\* decoded value's.
Json(k, dec, p, n) == [k |-> k, dec |-> dec, p |-> p, n |-> n]
EmptyObj == Json("obj", "none", <<>>, 0)
JsonObj(p) == Json("obj", "none", p, 0)
JsonList(n) == Json("list", "none", <<>>, n)
JsonNum(n) == Json("num", "none", <<>>, n)
JsonStrOf(v) == Json("str", v.k, v.p, v.n)
JsonBadStr == Json("str", "bad", <<>>, 0)
NoData == Json("absent", "none", <<>>, 0)

\* json_loads that hands the string back without decoding it
json_loads_identity(v) == v

\* json.loads(text) of a string value whose text is valid JSON
json_loads(v) == Json(v.dec, "none", v.p, v.n)

\* Python truthiness, as `if not stores_data` tests it
Truthy(v) ==
    CASE v.k = "obj"  -> v.p # <<>>
      [] v.k = "list" -> v.n > 0
      [] v.k = "num"  -> v.n # 0
      [] v.k = "str"  -> TRUE
      [] OTHER        -> FALSE

\* The body of an HTTP answer: no JSON at all, or a JSON list, or a JSON
\* object with an optional "status" and an optional "data".
Body(shape, status, data) == [shape |-> shape, status |-> status, data |-> data]
NotJson == Body("nojson", "absent", NoData)
TopLevelList == Body("list", "absent", NoData)
Envelope(status, data) == Body("object", status, data)

NetworkError == [net |-> "error", code |-> 0, body |-> NotJson]
Response(code, body) == [net |-> "ok", code |-> code, body |-> body]

RawItem(cat, cnt) == Item(cat, Absent, Absent, Absent, cnt, Absent)

StoreA == <<"S", "t", "o", "r", "e", " ", "A">>
StoreB == <<"S", "t", "o", "r", "e", " ", "B">>

\* the end-to-end payload of the specification, and a store with no items
TwoStores ==
    << [key |-> StoreA, items |-> <<RawItem(Some("Tops"), Five)>>],
       [key |-> StoreB, items |-> <<RawItem(Some("Tops"), Three)>>] >>
OneEmptyStore == << [key |-> <<"A">>, items |-> <<>>] >>

InventoryBodies ==
    { NotJson, TopLevelList,
      Envelope("absent", JsonObj(TwoStores)),
      Envelope("error", NoData),
      Envelope("success", NoData),
      Envelope("success", JsonObj(TwoStores)),
      Envelope("success", JsonObj(OneEmptyStore)),
      Envelope("success", EmptyObj),
      Envelope("success", JsonStrOf(JsonObj(TwoStores))),
      Envelope("success", JsonBadStr),
      Envelope("success", JsonList(1)) }

StatusCodes == {200, 302, 404, 500}

InventoryOutcomes ==
    {NetworkError} \cup { Response(c, b) : c \in StatusCodes, b \in InventoryBodies }

----------------------------------------------------------------------------
(* The inventory Fetcher, src/main.py fetch_store_data *)

Returned(value, msgs) == [exc |-> "none", value |-> value, msgs |-> msgs]
Raised(exc) == [exc |-> exc, value |-> EmptyObj, msgs |-> {}]

\* response.raise_for_status(): HTTPError for a 4xx or 5xx answer
raise_for_status(code) == code >= 400 /\ code < 600

\* the statements inside the try block, main.py lines 53-67
fetch_try_block(o) ==
    IF o.net = "error" THEN Raised("ConnectionError")
    ELSE IF raise_for_status(o.code) THEN Raised("HTTPError")
    ELSE IF o.body.shape = "nojson" THEN Raised("JSONDecodeError")
    ELSE IF o.body.shape # "object" THEN Raised("TypeError")
    ELSE IF o.body.status = "absent" THEN Raised("KeyError")
    ELSE IF o.body.status = "success"
         THEN IF o.body.data.k = "absent" THEN Raised("KeyError")
              ELSE IF o.body.data.k = "str"
                   THEN IF o.body.data.dec = "bad"
                        THEN Returned(EmptyObj, {"Error parsing JSON data"})
                        ELSE Returned(json_loads(o.body.data), {})
                   ELSE Returned(o.body.data, {})
         ELSE Returned(EmptyObj, {"API returned error status"})

\* fetch_except with a handler for requests' own exceptions only
fetch_except_requests_only(r) ==
    IF r.exc \in {"ConnectionError", "HTTPError"}
    THEN Returned(EmptyObj, {"Error fetching data"})
    ELSE r

\* fetch_except that lets the exception leave the function: nothing is
\* returned, so nothing is memoized
fetch_except_reraise(r) == r

\* except Exception as e: st.error(...); return {}
fetch_except(r) ==
    IF r.exc # "none" THEN Returned(EmptyObj, {"Error fetching data"}) ELSE r

fetch_store_data(o) == fetch_except(fetch_try_block(o))

----------------------------------------------------------------------------
(* The sales Fetcher and Normalizer, src/sales-report.py load_data *)

MonthAbbr ==
    <<"Jan", "Feb", "Mar", "Apr", "May", "Jun",
      "Jul", "Aug", "Sep", "Oct", "Nov", "Dec">>

Date(y, m, d) == [y |-> y, m |-> m, d |-> d]

\* pd.to_datetime on one text, "YYYY-MM" or "YYYY-MM-DD": Some(date), or
\* Absent when pandas raises on it
to_datetime(text) ==
    IF /\ Len(text) \in {7, 10}
       /\ IsDigits(SubSeq(text, 1, 4)) /\ text[5] = "-"
       /\ IsDigits(SubSeq(text, 6, 7))
       /\ DigitsValue(SubSeq(text, 6, 7)) \in 1..12
       /\ Len(text) = 10 =>
            /\ text[8] = "-" /\ IsDigits(SubSeq(text, 9, 10))
            /\ DigitsValue(SubSeq(text, 9, 10)) \in 1..28
    THEN Some(Date(DigitsValue(SubSeq(text, 1, 4)),
                   DigitsValue(SubSeq(text, 6, 7)),
                   IF Len(text) = 10 THEN DigitsValue(SubSeq(text, 9, 10)) ELSE 1))
    ELSE Absent

\* pd.to_datetime('2025-01-01'), the dummy date of line 79
PlaceholderDate == Date(2025, 1, 1)

SalesRecord(store, item, month, qty, price, value) ==
    [store_name |-> store, item_name |-> item, month |-> month,
     total_quantity |-> qty, average_price |-> price, total_value |-> value]

\* lines 72-117 on one record whose date has been parsed (Absent is NaT)
sales_row(rec, date) ==
    [store_name       |-> strip(rec.store_name),
     item_name        |-> rec.item_name,
     month            |-> rec.month,
     total_quantity   |-> rec.total_quantity,
     average_price    |-> rec.average_price,
     total_value      |-> rec.total_value,
     date             |-> date,
     month_name       |-> IF date = Absent THEN Absent ELSE Some(MonthAbbr[date[1].m]),
     year             |-> IF date = Absent THEN Absent ELSE Some(date[1].y),
     month_year       |-> IF date = Absent THEN Absent
                          ELSE Some(<<MonthAbbr[date[1].m], date[1].y>>),
     product_category |-> categorize_product(rec.item_name)]

SalesColumns ==
    {"store_name", "item_name", "total_quantity", "average_price", "total_value"}
DerivedColumns ==
    {"date", "month_name", "year", "month_year", "product_category"}

SalesResult(exc, cols, rows, msgs, started) ==
    [exc |-> exc, cols |-> cols, rows |-> rows, msgs |-> msgs, started |-> started]

\* lines 69-119: from json_data['data'] to the returned table
sales_normalize(recs, msgs) ==
    LET hasMonth == \E i \in 1..Len(recs) : recs[i].month # Absent
        date(i)  == IF ~hasMonth THEN Some(PlaceholderDate)
                    ELSE IF recs[i].month = Absent THEN Absent
                    ELSE to_datetime(recs[i].month[1])
        warned   == IF hasMonth THEN msgs ELSE msgs \cup {"No 'month' field found in data"}
    IN  IF \E i \in 1..Len(recs) : recs[i].month # Absent /\ date(i) = Absent
        THEN SalesResult("ValueError", {}, <<>>, msgs, TRUE)
        ELSE IF recs = <<>>
        THEN SalesResult("KeyError", {}, <<>>, warned, TRUE)
        ELSE SalesResult("none",
                 SalesColumns \cup DerivedColumns
                     \cup (IF hasMonth THEN {"month"} ELSE {}),
                 [i \in 1..Len(recs) |-> sales_row(recs[i], date(i))],
                 warned, TRUE)

\* lines 58-66, the try block: Some(body) when json_data is assigned
sales_try_block(o) ==
    IF o.net = "error"
    THEN [json_data |-> Absent,
          msgs |-> {"Could not fetch data from API. Using fallback data."}]
    ELSE IF o.code = 200
         THEN IF o.body.shape = "nojson"
              THEN [json_data |-> Absent,
                    msgs |-> {"Could not fetch data from API. Using fallback data."}]
              ELSE [json_data |-> Some(o.body), msgs |-> {}]
         ELSE [json_data |-> Absent,
               msgs |-> {"API returned status code. Using fallback data."}]

\* the read of json_data['data'] in line 70
sales_read_data(t) ==
    IF t.json_data = Absent
    THEN SalesResult("UnboundLocalError", {}, <<>>, t.msgs, FALSE)
    ELSE IF t.json_data[1].shape # "object"
    THEN SalesResult("TypeError", {}, <<>>, t.msgs, FALSE)
    ELSE IF t.json_data[1].data.k = "absent"
    THEN SalesResult("KeyError", {}, <<>>, t.msgs, FALSE)
    ELSE sales_normalize(t.json_data[1].data.p, t.msgs)

load_data(o) == sales_read_data(sales_try_block(o))

SalesList(recs) == Json("list", "none", recs, Len(recs))

KimonoJacket == Str(Kimono \o Space \o Jacket)
ToteBag == Str(Tote \o Space \o <<"B", "a", "g">>)
Jan2025 == <<"2", "0", "2", "5", "-", "0", "1">>
Dec2024 == <<"2", "0", "2", "4", "-", "1", "2", "-", "0", "1">>

SalesSample ==
    << SalesRecord(StoreA \o Space, KimonoJacket, Some(Jan2025), 2, 100, 200),
       SalesRecord(StoreB, ToteBag, Some(Dec2024), 1, 50, 50) >>
SalesNoMonth ==
    << SalesRecord(StoreA, ToteBag, Absent, 3, 50, 150) >>

SalesBodies ==
    { NotJson,
      Envelope("absent", NoData),
      Envelope("absent", SalesList(SalesSample)),
      Envelope("absent", SalesList(SalesNoMonth)),
      Envelope("absent", SalesList(<<>>)) }

SalesOutcomes ==
    {NetworkError} \cup { Response(c, b) : c \in StatusCodes, b \in SalesBodies }

----------------------------------------------------------------------------
(* The script runs. Streamlit runs the whole script again on every page     *)
(* load and every user interaction; st.cache_data keeps the value a fetch   *)
(* function returned, and the st elements it emitted, for ttl seconds.      *)

TTL_INVENTORY ==
    600
TTL_SALES ==
    300

ttl(a) == IF a = "inventory" THEN TTL_INVENTORY ELSE TTL_SALES

TickSteps == {1, 299, 300}

NoEntry == [at |-> -1, value |-> EmptyObj, table |-> NoFrame, msgs |-> {}]
NoOutcome == [net |-> "none", code |-> 0, body |-> NotJson]

Terminal == {"idle", "stopped", "crashed", "done"}

\* CacheHit with the ttl taken as 5 (minutes read as seconds)
CacheHitFiveSeconds == cache.at >= 0 /\ now < cache.at + 5

\* a cache entry is served until ttl seconds after it was stored
CacheHit == cache.at >= 0 /\ now < cache.at + ttl(app)

Frame(r) == [exc |-> r.exc, cols |-> r.cols, rows |-> r.rows]

RunInit ==
    /\ now = 0
    /\ cache = NoEntry
    /\ pc = "idle"
    /\ requested = FALSE
    /\ ui = {}
    /\ stores_data = EmptyObj
    /\ df = NoFrame
    /\ normalized = FALSE
    /\ lastReq = -1
    /\ lastNorm = -1
    /\ escaped = "none"
    /\ outcome = NoOutcome
    /\ ticks = 0

\* no selector has been shown and no tab has been rendered
NoSelection ==
    [store |-> <<>>, category |-> "", collection |-> "", gender |-> "",
     year |-> 0, month |-> "", store_for_analysis |-> <<>>]
NoKpi == [previous_period_df |-> <<>>, metrics |-> <<>>]
NoPage ==
    [exc |-> "none", failed |-> "", total_items |-> 0, kpi |-> NoKpi,
     charts |-> <<>>]
NoFigure == [drawn |-> FALSE, rows |-> <<>>]

ViewIdle ==
    /\ selected = NoSelection
    /\ filtered_df = <<>>
    /\ page = NoPage
    /\ monthly_quantity = <<>>
    /\ fig_growth = NoFigure
    /\ item_totals = <<>>
    /\ top_products = NoFigure

HarnessIdle ==
    /\ payload = <<>>
    /\ norm = NoFrame
    /\ raw_df = NoRawFrame
    /\ item_name = NotAString
    /\ label = ""
    /\ hpc = "off"
    /\ ViewIdle

Init ==
    /\ app \in {"inventory", "sales"}
    /\ RunInit
    /\ HarnessIdle

\* the clock advances between runs
Tick ==
    /\ pc \in Terminal
    /\ ticks < MaxTicks
    /\ \E d \in TickSteps : now' = now + d
    /\ ticks' = ticks + 1
    /\ UNCHANGED <<app, cache, pc, requested, ui, stores_data, df, normalized,
                   lastReq, lastNorm, escaped, outcome>>
    /\ UNCHANGED harnessVars
    /\ UNCHANGED viewVars

\* a page load or a widget change starts the script from its first line
Rerun ==
    /\ pc \in Terminal
    /\ pc' = "fetch"
    /\ requested' = FALSE
    /\ ui' = {}
    /\ stores_data' = EmptyObj
    /\ df' = NoFrame
    /\ normalized' = FALSE
    /\ escaped' = "none"
    /\ outcome' = NoOutcome
    /\ UNCHANGED <<app, now, cache, lastReq, lastNorm, ticks>>
    /\ UNCHANGED harnessVars
    /\ UNCHANGED viewVars

\* main.py line 74, served from the cache
FetchCached ==
    /\ app = "inventory" /\ pc = "fetch"
    /\ CacheHit
    /\ stores_data' = cache.value
    /\ ui' = ui \cup cache.msgs
    /\ pc' = "guard"
    /\ UNCHANGED <<app, now, cache, requested, df, normalized, lastReq, lastNorm,
                   escaped, outcome, ticks>>
    /\ UNCHANGED harnessVars
    /\ UNCHANGED viewVars

\* main.py line 74, fetch_store_data runs
FetchRemote ==
    /\ app = "inventory" /\ pc = "fetch"
    /\ ~CacheHit
    /\ \E o \in InventoryOutcomes :
         LET r == fetch_store_data(o)
         IN  /\ outcome' = o
             /\ ui' = ui \cup r.msgs
             /\ IF r.exc # "none"
                THEN /\ escaped' = r.exc
                     /\ pc' = "crashed"
                     /\ UNCHANGED <<cache, stores_data>>
                ELSE /\ cache' = [at |-> now, value |-> r.value,
                                  table |-> NoFrame, msgs |-> r.msgs]
                     /\ stores_data' = r.value
                     /\ pc' = "guard"
                     /\ UNCHANGED escaped
    /\ requested' = TRUE
    /\ lastReq' = now
    /\ UNCHANGED <<app, now, df, normalized, lastNorm, ticks>>
    /\ UNCHANGED harnessVars
    /\ UNCHANGED viewVars

\* halts_on written as `if stores_data is None`
halts_on_none(v) == v.k = "null"

\* main.py line 76
halts_on(v) == ~Truthy(v)

\* main.py lines 76-78
LoadGuard ==
    /\ app = "inventory" /\ pc = "guard"
    /\ IF halts_on(stores_data)
       THEN /\ ui' = ui \cup {"No data available"}
            /\ pc' = "stopped"
       ELSE /\ pc' = "normalize"
            /\ UNCHANGED ui
    /\ UNCHANGED <<app, now, cache, requested, stores_data, df, normalized,
                   lastReq, lastNorm, escaped, outcome, ticks>>
    /\ UNCHANGED harnessVars
    /\ UNCHANGED viewVars

\* main.py line 107
ProcessStoreData ==
    /\ app = "inventory" /\ pc = "normalize"
    /\ normalized' = TRUE
    /\ IF stores_data.k # "obj"
       THEN /\ escaped' = "AttributeError"
            /\ pc' = "crashed"
            /\ UNCHANGED <<df, lastNorm>>
       ELSE LET r == process_store_data(stores_data.p)
            IN  IF r.exc # "none"
                THEN /\ escaped' = r.exc
                     /\ pc' = "crashed"
                     /\ UNCHANGED <<df, lastNorm>>
                ELSE /\ df' = r
                     /\ lastNorm' = now
                     /\ pc' = "filter"
                     /\ UNCHANGED escaped
    /\ UNCHANGED <<app, now, cache, requested, ui, stores_data, lastReq,
                   outcome, ticks>>
    /\ UNCHANGED harnessVars
    /\ UNCHANGED viewVars

\* sales-report.py line 133, served from the cache
LoadDataCached ==
    /\ app = "sales" /\ pc = "fetch"
    /\ CacheHit
    /\ df' = cache.table
    /\ ui' = ui \cup cache.msgs
    /\ pc' = "guard"
    /\ UNCHANGED <<app, now, cache, requested, stores_data, normalized, lastReq,
                   lastNorm, escaped, outcome, ticks>>
    /\ UNCHANGED harnessVars
    /\ UNCHANGED viewVars

\* sales-report.py line 133, load_data runs
LoadDataRemote ==
    /\ app = "sales" /\ pc = "fetch"
    /\ ~CacheHit
    /\ \E o \in SalesOutcomes :
         LET r == load_data(o)
         IN  /\ outcome' = o
             /\ ui' = ui \cup r.msgs
             /\ normalized' = r.started
             /\ IF r.exc # "none"
                THEN /\ escaped' = r.exc
                     /\ pc' = "crashed"
                     /\ UNCHANGED <<cache, df, lastNorm>>
                ELSE /\ cache' = [at |-> now, value |-> EmptyObj,
                                  table |-> Frame(r), msgs |-> r.msgs]
                     /\ df' = Frame(r)
                     /\ lastNorm' = now
                     /\ pc' = "guard"
                     /\ UNCHANGED escaped
    /\ requested' = TRUE
    /\ lastReq' = now
    /\ UNCHANGED <<app, now, stores_data, ticks>>
    /\ UNCHANGED harnessVars
    /\ UNCHANGED viewVars

\* sales-report.py lines 136-138
EmptyGuard ==
    /\ app = "sales" /\ pc = "guard"
    /\ IF df.rows = <<>>
       THEN /\ ui' = ui \cup {"No data available"}
            /\ pc' = "stopped"
       ELSE /\ pc' = "filter"
            /\ UNCHANGED ui
    /\ UNCHANGED <<app, now, cache, requested, stores_data, df, normalized,
                   lastReq, lastNorm, escaped, outcome, ticks>>
    /\ UNCHANGED harnessVars
    /\ UNCHANGED viewVars

\* the rest of either script: selectors, filters, aggregates and charts. The
\* tables of these stages are the subject of the harness specifications.
RenderPage ==
    /\ pc = "filter"
    /\ ui' = ui \cup {"charts"}
    /\ pc' = "done"
    /\ UNCHANGED <<app, now, cache, requested, stores_data, df, normalized,
                   lastReq, lastNorm, escaped, outcome, ticks>>
    /\ UNCHANGED harnessVars
    /\ UNCHANGED viewVars

Next ==
    \/ Tick
    \/ Rerun
    \/ FetchCached
    \/ FetchRemote
    \/ LoadGuard
    \/ ProcessStoreData
    \/ LoadDataCached
    \/ LoadDataRemote
    \/ EmptyGuard
    \/ RenderPage

Spec == Init /\ [][Next]_vars

----------------------------------------------------------------------------
(* Harness: process_store_data applied to the payloads the API can send.    *)
(* The remote side builds a payload store by store and record by record;    *)
(* Process is the call of main.py line 107, which the script reaches only   *)
(* with a payload that passed the guard of line 76.                         *)

HarnessOff ==
    /\ app = "inventory"
    /\ RunInit
    /\ norm = NoFrame
    /\ raw_df = NoRawFrame
    /\ label = ""
    /\ ViewIdle

InitNorm ==
    /\ HarnessOff
    /\ payload = <<>>
    /\ item_name = NotAString
    /\ hpc = "build"

AddStore ==
    /\ hpc = "build"
    /\ Len(payload) < MaxStores
    /\ \E k \in StoreKeys :
         /\ \A i \in 1..Len(payload) : payload[i].key # k
         /\ payload' = Append(payload, [key |-> k, items |-> <<>>])
    /\ UNCHANGED <<norm, raw_df, item_name, label, hpc>>
    /\ UNCHANGED runVars
    /\ UNCHANGED viewVars

AppendItem(it) ==
    [payload EXCEPT ![Len(payload)].items = Append(@, it)]

AddItem ==
    /\ hpc = "build"
    /\ payload # <<>>
    /\ RecordCount(payload) < MaxRecords
    /\ \E it \in SampleItems : payload' = AppendItem(it)
    /\ UNCHANGED <<norm, raw_df, item_name, label, hpc>>
    /\ UNCHANGED runVars
    /\ UNCHANGED viewVars

Process ==
    /\ hpc = "build"
    /\ ~halts_on(JsonObj(payload))
    /\ raw_df' = frame_before_count(payload)
    /\ norm' = process_store_data(payload)
    /\ hpc' = "done"
    /\ UNCHANGED <<payload, item_name, label>>
    /\ UNCHANGED runVars
    /\ UNCHANGED viewVars

NextNorm == AddStore \/ AddItem \/ Process

SpecNorm == InitNorm /\ [][NextNorm]_vars

(* Harness: the count column. One store, each record a count cell only. *)

InitCount ==
    /\ HarnessOff
    /\ payload = << [key |-> <<"A">>, items |-> <<>>] >>
    /\ item_name = NotAString
    /\ hpc = "build"

AddCountItem ==
    /\ hpc = "build"
    /\ RecordCount(payload) < MaxCountRecords
    /\ \E it \in CountItems : payload' = AppendItem(it)
    /\ UNCHANGED <<norm, raw_df, item_name, label, hpc>>
    /\ UNCHANGED runVars
    /\ UNCHANGED viewVars

NextCount == AddCountItem \/ Process

SpecCount == InitCount /\ [][NextCount]_vars

(* Harness: categorize_product applied to item names made of the words the  *)
(* rules look for, and to a value that is no string.                        *)

InitCat ==
    /\ HarnessOff
    /\ payload = <<>>
    /\ item_name = Str(<<>>)
    /\ hpc = "build"

AddWord ==
    /\ hpc = "build"
    /\ item_name.isstr
    /\ item_name.text = <<>> \/ WordCount(item_name.text) + 1 < MaxWords
    /\ \E w \in NameWords :
         item_name' = Str(IF item_name.text = <<>> THEN w
                          ELSE item_name.text \o Space \o w)
    /\ UNCHANGED <<payload, norm, raw_df, label, hpc>>
    /\ UNCHANGED runVars
    /\ UNCHANGED viewVars

\* the API sends null or a number for item_name
SendNonString ==
    /\ hpc = "build"
    /\ item_name = Str(<<>>)
    /\ item_name' = NotAString
    /\ UNCHANGED <<payload, norm, raw_df, label, hpc>>
    /\ UNCHANGED runVars
    /\ UNCHANGED viewVars

Categorize ==
    /\ hpc = "build"
    /\ label' = categorize_product(item_name)
    /\ hpc' = "done"
    /\ UNCHANGED <<payload, norm, raw_df, item_name>>
    /\ UNCHANGED runVars
    /\ UNCHANGED viewVars

NextCat == AddWord \/ SendNonString \/ Categorize

SpecCat == InitCat /\ [][NextCat]_vars

----------------------------------------------------------------------------
(* Claims about the fetch, the cache and the order of the stages (Spec) *)

FetchErrors ==
    {"Error fetching data", "API returned error status", "Error parsing JSON data"}
FetchWarnings ==
    {"Could not fetch data from API. Using fallback data.",
     "API returned status code. Using fallback data."}

NotAnEnvelope(o) ==
    \/ o.body.shape # "object"
    \/ o.body.status = "absent"
    \/ o.body.data.k = "absent"

\* the failures as the claim lists them
ClaimedFailure(o) ==
    \/ o.net = "error"
    \/ o.code \notin 200..299
    \/ NotAnEnvelope(o)
    \/ o.body.status # "success"

\* the failures with "non-2xx" narrowed to the 4xx and 5xx answers
HttpErrorFailure(o) ==
    \/ o.net = "error"
    \/ o.code \in 400..599
    \/ NotAnEnvelope(o)
    \/ o.body.status # "success"

FailsClosed ==
    /\ stores_data = EmptyObj
    /\ escaped = "none"
    /\ ui \cap FetchErrors # {}

\* C1 as stated: after a call of fetch_store_data whose HTTP outcome is a
\* network error, a non-2xx status, a body that is no {status, data}
\* envelope or a status other than "success", the function has returned the
\* empty result, an error is on the page and no exception escaped.
C1_FailsClosedNon2xx ==
    (app = "inventory" /\ outcome.net # "none" /\ ClaimedFailure(outcome))
        => FailsClosed

\* C1 amended: the same with "non-2xx status" replaced by "4xx or 5xx
\* status"; an answer with any other status is judged by its body alone.
C1_FailsClosed ==
    (app = "inventory" /\ outcome.net # "none" /\ HttpErrorFailure(outcome))
        => FailsClosed

C1_Witness ==
    /\ app = "inventory" /\ pc = "guard"
    /\ outcome.net = "ok" /\ outcome.code = 200 /\ outcome.body.shape = "list"
    /\ FailsClosed

SalesFailure(o) ==
    \/ o.net = "error"
    \/ o.code # 200
    \/ o.body.shape # "object"
    \/ o.body.data.k = "absent"

FetchFailed ==
    /\ outcome.net # "none"
    /\ IF app = "inventory" THEN HttpErrorFailure(outcome) ELSE SalesFailure(outcome)

\* the failure is on the page: a message of the script, or the exception
\* Streamlit prints when one leaves the script
Reported ==
    \/ ui \cap (FetchErrors \cup FetchWarnings \cup {"No data available"}) # {}
    \/ escaped # "none"

C3_FallbackTable ==
    (app = "sales" /\ outcome.net # "none"
        /\ (outcome.net = "error" \/ outcome.code # 200))
        => /\ ui \cap FetchWarnings # {}
           /\ escaped = "none"
           /\ df # NoFrame

\* C4: an access less than TTL seconds after a fetch is served from the
\* cache without an HTTP request; an access at or after TTL seconds
\* fetches again.
C4_TimeBoundedCache ==
    [][ (pc = "fetch" /\ pc' # "fetch" /\ lastReq >= 0) =>
           IF now < lastReq + ttl(app)
           THEN /\ ~requested'
                /\ stores_data' = cache.value /\ df' = cache.table
           ELSE requested' /\ lastReq' = now ]_vars

\* C5 as stated: inside one TTL window the Normalizer runs at most once per
\* dashboard.
C5_NormalizerOncePerWindow ==
    [][ (normalized' /\ ~normalized) =>
           (lastNorm = -1 \/ now >= lastNorm + ttl(app)) ]_vars

\* C5 amended: in the sales dashboard a normalized table is built only by a
\* load_data call that missed the cache, so at most once per 300 s window;
\* in the inventory dashboard only the raw payload is memoized and
\* process_store_data runs in every run that passes the emptiness guard,
\* also inside the window; the page is drawn again in every run that
\* reaches it.
C5_OnlySalesNormalizesOncePerWindow ==
    [][ /\ (app = "sales" /\ lastNorm' # lastNorm) =>
             /\ requested' /\ ~CacheHit
             /\ lastNorm = -1 \/ now >= lastNorm + TTL_SALES
        /\ (app = "sales" /\ pc = "fetch" /\ CacheHit) =>
             (df' = cache.table /\ ~normalized')
        /\ (app = "inventory" /\ pc = "guard" /\ Truthy(stores_data)) =>
             pc' = "normalize"
        /\ (app = "inventory" /\ pc = "normalize") => normalized'
      ]_vars

C5_Witness ==
    /\ app = "sales" /\ pc = "done"
    /\ ~requested /\ ~normalized
    /\ now > lastNorm /\ lastNorm >= 0

----------------------------------------------------------------------------
(* Claims about process_store_data (SpecNorm, SpecCount) *)

\* the record behind row i of the table and the key of its store list
RECURSIVE Source(_, _)
Source(data, i) ==
    IF i <= Len(Head(data).items)
    THEN [key |-> Head(data).key, rec |-> Head(data).items[i]]
    ELSE Source(Tail(data), i - Len(Head(data).items))

\* r is key without its leading and trailing whitespace
IsStripOf(r, key) ==
    /\ r # <<>> => (r[1] \notin Whitespace /\ r[Len(r)] \notin Whitespace)
    /\ \E a \in 0..Len(key) : \E b \in 0..(Len(key) - a) :
         /\ r = SubSeq(key, a + 1, Len(key) - b)
         /\ \A i \in 1..a : key[i] \in Whitespace
         /\ \A i \in (Len(key) - b + 1)..Len(key) : key[i] \in Whitespace

\* C6: process_store_data makes one row per item record, in payload order,
\* and the row's store_name is the key of the record's store list without
\* its surrounding whitespace, whatever store_name the record carried.
C6_OneRowPerRecordUnderItsStore ==
    hpc = "done" =>
        /\ Len(raw_df.rows) = RecordCount(payload)
        /\ \A i \in 1..Len(raw_df.rows) :
             /\ raw_df.rows[i].store_name # Absent
             /\ IsStripOf(raw_df.rows[i].store_name[1], Source(payload, i).key)
             /\ raw_df.rows[i].count = Source(payload, i).rec.count
        /\ norm.exc = "none" =>
             /\ Len(norm.rows) = RecordCount(payload)
             /\ \A i \in 1..Len(norm.rows) :
                  IsStripOf(norm.rows[i].store_name, Source(payload, i).key)

C6_Witness ==
    /\ hpc = "done" /\ norm.exc = "none"
    /\ Len(payload) = 2 /\ Len(norm.rows) = 2
    /\ \E i \in 1..2 :
         /\ Source(payload, i).key = <<" ", "A", " ">>
         /\ Source(payload, i).rec.store_name = Some(<<"Z">>)
         /\ norm.rows[i].store_name = <<"A">>

\* the value of a decimal numeral, read from the left
RECURSIVE Horner(_, _)
Horner(acc, digits) ==
    IF digits = <<>> THEN acc
    ELSE Horner(10 * acc + DigitOf[Head(digits)], Tail(digits))

IsNumeral(text) ==
    LET digits == IF text # <<>> /\ Head(text) = "-" THEN Tail(text) ELSE text
    IN  digits # <<>> /\ \A i \in 1..Len(digits) : digits[i] \in DOMAIN DigitOf

NumeralValue(text) ==
    IF Head(text) = "-" THEN 0 - Horner(0, Tail(text)) ELSE Horner(0, text)

CountCellOf(i) == Source(payload, i).rec.count

NotNumeric(cell) == cell = Absent \/ ~IsNumeral(cell[1].text)

C8_NormalizationNeverFails ==
    hpc = "done" => (norm.exc = "none" /\ "count" \in norm.cols)

\* C9: a categorical field that no record has is "Unknown" in every row; a
\* field that some record has keeps each record's own value, and is null in
\* the rows whose record lacks it.
C9_CategoryDefault ==
    hpc = "done" =>
        \A f \in CategoricalFields :
            LET n == RecordCount(payload)
                expected(i) ==
                    IF \A j \in 1..n : Source(payload, j).rec[f] = Absent
                    THEN Some("Unknown")
                    ELSE Source(payload, i).rec[f]
            IN  /\ Len(raw_df.rows) = n
                /\ \A i \in 1..n : raw_df.rows[i][f] = expected(i)
                /\ norm.exc = "none" =>
                     \A i \in 1..n : norm.rows[i][f] = expected(i)

C9_Witness ==
    /\ hpc = "done" /\ norm.exc = "none"
    /\ \E i, j \in 1..Len(norm.rows) :
         /\ Source(payload, i).rec.category = Absent
         /\ norm.rows[i].category = Absent
         /\ norm.rows[j].category = Some("Tops")
         /\ norm.rows[i].gender = Some("Unknown")
         /\ norm.rows[j].gender = Some("Unknown")

----------------------------------------------------------------------------
(* Claim about categorize_product (SpecCat) *)

\* the rules in the order the specification gives them
Rule(pats, lbl) == [pats |-> pats, lbl |-> lbl]
CategoryRules ==
    << Rule({Kimono}, "Kimono Jacket"),
       Rule({Gilet}, "Gilet Jacket"),
       Rule({TP \o Space \o Jacket, Trucker \o Space \o Jacket}, "TP/Trucker Jacket"),
       Rule({Tote}, "Tote Bag"),
       Rule({Hat}, "Campaign Hats"),
       Rule({Shorts}, "Shorts"),
       Rule({Jeans}, "Jeans"),
       Rule({Skirt}, "Skirt"),
       Rule({Bottle}, "Bottle Sling"),
       Rule({DRESS}, "Dress") >>

\* text has the characters of pat at some position
Occurs(pat, text) ==
    \E i \in 0..(Len(text) - Len(pat)) :
        \A j \in 1..Len(pat) : text[i + j] = pat[j]

Matches(r, text) == \E pat \in CategoryRules[r].pats : Occurs(pat, text)

\* C10: the label is that of the first rule, in the order Kimono, Gilet,
\* TP Jacket/Trucker Jacket, Tote, Hat, Shorts, Jeans, Skirt, Bottle, DRESS,
\* one of whose substrings occurs in the name; "Other" when none does;
\* "Unknown" when the name is no string.
C10_FirstRuleWins ==
    hpc = "done" =>
        IF ~item_name.isstr THEN label = "Unknown"
        ELSE LET hits == {r \in 1..Len(CategoryRules) : Matches(r, item_name.text)}
             IN  IF hits = {} THEN label = "Other"
                 ELSE \E r \in hits :
                        /\ \A q \in hits : r <= q
                        /\ label = CategoryRules[r].lbl

C10_Witness ==
    /\ hpc = "done"
    /\ item_name = Str(Kimono \o Space \o Gilet \o Space \o Jacket)
    /\ label = "Kimono Jacket"

----------------------------------------------------------------------------
(* Claims about the nested JSON string of the inventory envelope (Spec) *)

SuccessEnvelope(o) ==
    /\ o.net = "ok" /\ ~raise_for_status(o.code)
    /\ o.body.shape = "object" /\ o.body.status = "success"
    /\ o.body.data.k # "absent"

\* the value a JSON string decodes to
Decoded(d) == [k |-> d.dec, dec |-> "none", p |-> d.p, n |-> d.n]

\* C19: when the data of a success envelope is a JSON string,
\* fetch_store_data returns what the string decodes to; when the string
\* does not decode it reports "Error parsing JSON data" and returns the
\* empty result, and no exception escapes the function (one that ends the
\* run is the Normalizer's); data that is already structured is returned
\* as it is.
C19_NestedJsonString ==
    (app = "inventory" /\ SuccessEnvelope(outcome)) =>
        LET d == outcome.body.data
        IN  /\ escaped # "none" => normalized
            /\ (d.k = "str" /\ d.dec # "bad") =>
                   (stores_data = Decoded(d) /\ ui \cap FetchErrors = {})
            /\ (d.k = "str" /\ d.dec = "bad") =>
                   (stores_data = EmptyObj /\ "Error parsing JSON data" \in ui)
            /\ d.k # "str" => (stores_data = d /\ ui \cap FetchErrors = {})

C19_Witness ==
    /\ app = "inventory" /\ pc = "done"
    /\ outcome.net = "ok"
    /\ outcome.body = Envelope("success", JsonStrOf(JsonObj(TwoStores)))
    /\ stores_data = JsonObj(TwoStores)

----------------------------------------------------------------------------
(* The sidebar selectors and the filter stage of both scripts,              *)
(* src/main.py lines 113-137 and src/sales-report.py lines 143-192.        *)
(* A table is the sequence of its rows. The options of a selector are a    *)
(* set: the order sorted() gives them is not part of this model.           *)

AllStores == <<"A", "l", "l", " ", "S", "t", "o", "r", "e", "s">>

\* the cell of a row in a column, Absent where pandas holds NaN or None
cell(row, col) ==
    IF col \in {"store_name", "product_category", "count", "total_quantity"}
    THEN Some(row[col])
    ELSE IF col = "item_name"
    THEN (IF row.item_name.isstr THEN Some(row.item_name.text) ELSE Absent)
    ELSE row[col]

\* df[col].notna() on one row
notna(row, col) == cell(row, col) # Absent

\* df[col] == value on one row: a null cell equals nothing
eq(row, col, value) == notna(row, col) /\ cell(row, col)[1] = value

\* a mask that also lets the rows through whose cell is null
where_eq_or_null(rows, col, value) ==
    SelectSeq(rows, LAMBDA row : ~notna(row, col) \/ eq(row, col, value))

\* df[mask]: the rows of the mask, in their order
where_eq(rows, col, value) ==
    SelectSeq(rows, LAMBDA row : eq(row, col, value))

\* unique that leaves the sentinel values out
unique_known(rows, col) ==
    LET values == { cell(rows[i], col)[1] :
                      i \in {j \in 1..Len(rows) : notna(rows[j], col)} }
    IN  IF col \in CategoricalFields \cup {"product_category"}
        THEN values \ {"Unknown", "Other"}
        ELSE values

\* df[df[col].notna()][col].unique(), and df[col].unique() where no cell
\* of the column is null
unique(rows, col) ==
    { cell(rows[i], col)[1] : i \in {j \in 1..Len(rows) : notna(rows[j], col)} }

\* the store options without the wildcard
all_stores_no_wildcard(rows) == unique(rows, "store_name")

\* main.py lines 113, 117, 121, 125 and sales-report.py lines 161, 169
all_stores(rows) == {AllStores} \cup unique(rows, "store_name")
all_categories(rows) == {"All Categories"} \cup unique(rows, "category")
all_collections(rows) == {"All Collections"} \cup unique(rows, "collection")
all_genders(rows) == {"All Genders"} \cup unique(rows, "gender")
all_product_categories(rows) ==
    {"All Categories"} \cup unique(rows, "product_category")

\* the year of a row whose date is NaT, as the selectbox holds it: NaN, which
\* equals no year, itself included
NaNYear ==
    -1

\* sales-report.py line 144: the years of the table, none of them "all";
\* Series.unique() keeps NaN as a value
years(rows) ==
    unique(rows, "year")
        \cup (IF \E i \in 1..Len(rows) : ~notna(rows[i], "year")
              THEN {NaNYear} ELSE {})

\* sales-report.py line 152
months ==
    <<"All Months", "Jan", "Feb", "Mar", "Apr", "May", "Jun",
      "Jul", "Aug", "Sep", "Oct", "Nov", "Dec">>

Max(S) == CHOOSE x \in S : \A y \in S : y <= x

\* the step without its test for the wildcard
facet_always(rows, col, value, wildcard) == where_eq(rows, col, value)

\* one `if selected != "All ...": filtered_df = filtered_df[...]` step
facet(rows, col, value, wildcard) ==
    IF value # wildcard THEN where_eq(rows, col, value) ELSE rows

\* main.py lines 129-137
inventory_filter(rows, sel) ==
    LET copy == rows
        by_store == facet(copy, "store_name", sel.store, AllStores)
        by_category == facet(by_store, "category", sel.category, "All Categories")
        by_collection ==
            facet(by_category, "collection", sel.collection, "All Collections")
    IN  facet(by_collection, "gender", sel.gender, "All Genders")

\* sales-report.py lines 177-192
sales_filter(rows, sel) ==
    LET copy == rows
        by_year == where_eq(copy, "year", sel.year)
        by_month == facet(by_year, "month_name", sel.month, "All Months")
        by_store == facet(by_month, "store_name", sel.store, AllStores)
    IN  facet(by_store, "product_category", sel.category, "All Categories")

RECURSIVE col_sum(_, _)
\* df[col].sum()
col_sum(rows, col) ==
    IF rows = <<>> THEN 0 ELSE Head(rows)[col] + col_sum(Tail(rows), col)

\* df.groupby(key)[measure].sum(): one group per value of the key, the rows
\* whose key is null in none (dropna=True is the default of groupby)
groupby_sum(rows, key, measure) ==
    [k \in unique(rows, key) |-> col_sum(where_eq(rows, key, k), measure)]

RECURSIVE FnSum(_)
\* the sum of the measure over the groups of an aggregated table
FnSum(f) ==
    IF DOMAIN f = {} THEN 0
    ELSE LET k == CHOOSE x \in DOMAIN f : TRUE
         IN  f[k] + FnSum([x \in DOMAIN f \ {k} |-> f[x]])

----------------------------------------------------------------------------
(* The tabs. What a run renders is the sequence of its elements: a chart   *)
(* with the aggregated table it is drawn from, an st.info placeholder, or  *)
(* the st.warning of a try/except around a chart. A section that raises    *)
(* ends the run: Streamlit shows the exception and nothing after it.       *)
(* plotly express draws an empty bar, pie or line chart from an empty      *)
(* table; a heatmap, treemap or sunburst of an empty table raises.         *)

NoTable == [k \in {} |-> 0]

\* an element of the page: the table it shows and, for a table that was
\* sorted, the keys of its rows from the first row to the last
OrderedChart(name, data, order) ==
    [name |-> name, kind |-> "chart", data |-> data, order |-> order]
Chart(name, data) == OrderedChart(name, data, <<>>)
Info(name) == [name |-> name, kind |-> "info", data |-> NoTable, order |-> <<>>]
Warning(name) ==
    [name |-> name, kind |-> "warning", data |-> NoTable, order |-> <<>>]

Rendered(charts) == [exc |-> "none", failed |-> "", charts |-> charts]
Raise(exc, name) == [exc |-> exc, failed |-> name, charts |-> <<>>]

\* two sections of a script, one after the other
Then(a, b) ==
    IF a.exc # "none" THEN a
    ELSE [exc |-> b.exc, failed |-> b.failed, charts |-> a.charts \o b.charts]

\* `col in df.columns and df[col].notna().any()`
has_data(rows, col) == \E i \in 1..Len(rows) : notna(rows[i], col)

\* the rows none of whose cells in the columns is null: what a groupby or
\* a pivot over these columns keeps
complete_rows(rows, cols) ==
    SelectSeq(rows, LAMBDA row : \A c \in cols : notna(row, c))

\* a chart behind `if has_data: ... else: st.info(...)`
GuardedChart(rows, col, name) ==
    IF has_data(rows, col)
    THEN Chart(name, groupby_sum(rows, col, "count"))
    ELSE Info(name)

\* a chart inside try/except: the warning when its table is empty
TryChart(rows, cols, name) ==
    IF complete_rows(rows, cols) = <<>> THEN Warning(name)
    ELSE Chart(name, NoTable)

RECURSIVE sorted(_, _)
\* the elements of a set from the least rank to the greatest
sorted(S, by) ==
    IF S = {} THEN <<>>
    ELSE LET x == CHOOSE x \in S : \A y \in S : by[x] <= by[y]
         IN  <<x>> \o sorted(S \ {x}, by)

RECURSIVE insert(_, _, _)
insert(x, list, by) ==
    IF list = <<>> THEN <<x>>
    ELSE IF by[x] < by[Head(list)] THEN <<x>> \o list
    ELSE <<Head(list)>> \o insert(x, Tail(list), by)

RECURSIVE sort_values(_, _)
\* table.sort_values(by): the rows from the least value to the greatest,
\* rows of one value in the order they had
sort_values(list, by) ==
    IF list = <<>> THEN <<>>
    ELSE insert(list[Len(list)],
                sort_values(SubSeq(list, 1, Len(list) - 1), by), by)

\* the number of rows of a top-N table: .head(10) in main.py line 304 and
\* sales-report.py lines 330, 499, 572
TopRows ==
    10

\* head that cuts nothing
head_all(list, n) == list

\* table.head(n)
head(list, n) == SubSeq(list, 1, IF Len(list) < n THEN Len(list) ELSE n)

\* the sets of groups that can be the first n rows of a table sorted by its
\* totals from the largest down: the groups above the n-th largest total
\* and as many as are missing of the groups of that total
first_rows(table, n) ==
    LET keys == DOMAIN table
    IN  IF Cardinality(keys) <= n THEN {keys}
        ELSE LET cut == CHOOSE t \in {table[k] : k \in keys} :
                            /\ Cardinality({k \in keys : table[k] > t}) < n
                            /\ Cardinality({k \in keys : table[k] >= t}) >= n
                 above == {k \in keys : table[k] > cut}
                 tied == {k \in keys : table[k] = cut}
             IN  { above \cup part :
                     part \in {some \in SUBSET tied :
                                 Cardinality(some) = n - Cardinality(above)} }

\* table.sort_values(measure, ascending=False), for a table whose groups are
\* in the order by_key: the sort does not say in which order it leaves rows
\* of one total, so every choice of the rows that come within the first n
\* is an outcome; rows of one total on one side of the cut keep their order
descending(table, by_key, n) ==
    LET keys == DOMAIN table
        ordered(part) == sort_values(sorted(part, by_key),
                                     [k \in part |-> 0 - table[k]])
    IN  { ordered(first) \o ordered(keys \ first) :
            first \in first_rows(table, n) }

\* sort_values(measure, ascending=False).head(n): the lists of groups the
\* top-N table can hold, first row first
top_n(table, by_key, n) ==
    { head(order, n) : order \in descending(table, by_key, n) }

\* a top-N chart of a page. No table of a page of this model has more than
\* TopRows groups, so the groups of the chart are those of the table.
TopChart(table, name) ==
    LET keys == DOMAIN table
        by_key == CHOOSE f \in [keys -> 1..Cardinality(keys)] :
                      \A j, k \in keys : j # k => f[j] # f[k]
        rows == CHOOSE list \in top_n(table, by_key, TopRows) : TRUE
    IN  OrderedChart(name,
                     [k \in {rows[i] : i \in 1..Len(rows)} |-> table[k]], rows)

\* main.py lines 143-237, the Overview tab
overview_tab(rows) ==
    Rendered(<< Chart("Inventory by Store",
                      groupby_sum(rows, "store_name", "count")),
                GuardedChart(rows, "category", "Inventory by Category"),
                GuardedChart(rows, "collection", "Inventory by Collection"),
                GuardedChart(rows, "gender", "Inventory by Gender") >>)

\* the columns of a treemap or sunburst path, main.py lines 337-345, 479-487
path_of(rows, cols) == {c \in cols : has_data(rows, c)}

\* main.py lines 240-362, the Store Analysis tab
store_analysis_tab(df_rows, rows, sel) ==
    IF rows = <<>> THEN Rendered(<<Info("Store Analysis")>>)
    ELSE
    LET store_df == IF sel.store = AllStores
                    THEN where_eq(df_rows, "store_name", sel.store_for_analysis)
                    ELSE rows
        heatmap == IF has_data(store_df, "category")
                      /\ has_data(store_df, "collection")
                   THEN <<TryChart(store_df, {"category", "collection"},
                                   "Category x Collection Heatmap")>>
                   ELSE <<>>
        tops == IF has_data(store_df, "collection")
                THEN << TopChart(groupby_sum(store_df, "collection", "count"),
                                 "Top Collections"),
                        GuardedChart(store_df, "size", "Size Distribution") >>
                ELSE <<>>
        treemap == TryChart(store_df,
                      {"store_name"} \cup path_of(store_df, CategoricalFields),
                      "Inventory Treemap")
    IN  Rendered(heatmap \o tops \o <<treemap>>)

\* main.py lines 365-578, the Product Analysis tab; the charts below its two
\* drill-down selectors are drawn when their column has data
product_analysis_tab(rows) ==
    IF rows = <<>> THEN Rendered(<<Info("Product Analysis")>>)
    ELSE
    LET drill(col, name) == IF has_data(rows, col)
                            THEN Chart(name, NoTable) ELSE Info(name)
        sunburst_path == path_of(rows, CategoricalFields)
        sunburst == IF sunburst_path # {}
                    THEN TryChart(rows, sunburst_path, "Product Hierarchy")
                    ELSE Info("Product Hierarchy")
        parcoords_cols == path_of(rows, {"store_name"} \cup CategoricalFields)
        parcoords == IF Cardinality(parcoords_cols) + 1 >= 3
                     THEN Chart("Multi-dimensional Analysis", NoTable)
                     ELSE Info("Multi-dimensional Analysis")
    IN  Rendered(<< drill("category", "Stores by Category"),
                    drill("collection", "Stores by Collection"),
                    sunburst, parcoords >>)

Footer == Rendered(<<Info("footer")>>)

\* main.py lines 139-584: what a run renders after the filter stage
inventory_page(df_rows, rows, sel) ==
    LET r == Then(overview_tab(rows),
             Then(store_analysis_tab(df_rows, rows, sel),
             Then(product_analysis_tab(rows), Footer)))
    IN  [exc |-> r.exc, failed |-> r.failed,
         total_items |-> col_sum(rows, "count"), kpi |-> NoKpi,
         charts |-> r.charts]

SalesChart(rows, key, name) ==
    Chart(name, groupby_sum(rows, key, "total_quantity"))

\* list.index(x)
index(list, x) == (CHOOSE i \in 1..Len(list) : list[i] = x) - 1

\* the month abbreviations in the order of str
MonthsAlphabetical ==
    <<"Apr", "Aug", "Dec", "Feb", "Jan", "Jul",
      "Jun", "Mar", "May", "Nov", "Oct", "Sep">>

\* the place of a group key in the order groupby leaves its groups in
\* (sort=True): labels "Mon YYYY" and month names as strings, a pair of a
\* year and a month name by the year first
key_order(key, k) ==
    IF key = "month_year" THEN index(MonthsAlphabetical, k[1]) * 10000 + k[2]
    ELSE IF key = "month_name" THEN index(MonthsAlphabetical, k)
    ELSE k[1] * 12 + index(MonthsAlphabetical, k[2])

\* the sort key that is the label itself
sort_date_label(month_year) == key_order("month_year", month_year)

\* pd.to_datetime(month_year, format='%b %Y'), as a count of months
sort_date(month_year) ==
    month_year[2] * 12 + index(MonthAbbr, month_year[1])

\* sales-report.py line 666
month_display_order == MonthAbbr

\* sales-report.py lines 671-672
sort_month(x) ==
    IF \E i \in 1..Len(month_display_order) : month_display_order[i] = x
    THEN index(month_display_order, x)
    ELSE -1

\* a monthly trend: groupby('month_year') and sort_values('sort_date')
MonthlyChart(rows, name) ==
    LET table == groupby_sum(rows, "month_year", "total_quantity")
        keys == DOMAIN table
        grouped == sorted(keys, [k \in keys |-> key_order("month_year", k)])
    IN  OrderedChart(name, table,
                     sort_values(grouped, [k \in keys |-> sort_date(k)]))

\* lines 668-676: groupby(['year', 'month_name']), month_sort and
\* sort_values(['year', 'month_sort'])
seasonal_quantity(rows, name) ==
    LET complete == complete_rows(rows, {"year", "month_name"})
        keys == { <<complete[i].year[1], complete[i].month_name[1]>> :
                    i \in 1..Len(complete) }
        table == [k \in keys |->
                    col_sum(where_eq(where_eq(complete, "year", k[1]),
                                     "month_name", k[2]), "total_quantity")]
        grouped == sorted(keys, [k \in keys |-> key_order("year_month", k)])
    IN  OrderedChart(name, table,
            sort_values(sort_values(grouped, [k \in keys |-> sort_month(k[2])]),
                        [k \in keys |-> k[1]]))

\* lines 729-731: groupby('month_name'), month_sort, sort_values('month_sort')
monthly_distribution(rows, name) ==
    LET table == groupby_sum(rows, "month_name", "total_quantity")
        keys == DOMAIN table
        grouped == sorted(keys, [k \in keys |-> key_order("month_name", k)])
    IN  OrderedChart(name, table,
                     sort_values(grouped, [k \in keys |-> sort_month(k)]))

\* sales-report.py lines 263-346, the Sales Overview tab
sales_overview_tab(rows) ==
    Rendered(<< SalesChart(rows, "store_name", "Quantity by Store"),
                SalesChart(rows, "product_category", "Quantity by Category"),
                MonthlyChart(rows, "Monthly Quantity Trend"),
                TopChart(groupby_sum(rows, "item_name", "total_quantity"),
                         "Top 10 Products") >>)

\* sales-report.py lines 348-471, the Store Performance tab. Line 375 takes
\* idxmax() of the per-item totals whenever store_data has a row.
store_performance_tab(rows, sel) ==
    LET store_data == facet(rows, "store_name", sel.store, AllStores)
    IN  IF store_data # <<>> /\ unique(store_data, "item_name") = {}
        THEN Raise("ValueError", "Highest Quantity Item")
        ELSE Rendered(<<
            MonthlyChart(store_data, "Monthly Quantity by Store"),
            SalesChart(store_data,
                       IF sel.store = AllStores THEN "store_name"
                       ELSE "product_category",
                       "Store Quantity Distribution"),
            SalesChart(rows, "store_name", "Quantity by Store and Category") >>)

\* sales-report.py lines 473-607, the Product Analytics tab
product_analytics_tab(rows, sel) ==
    LET category_df == where_eq(rows, "product_category", sel.category)
    IN  Rendered(<<
            SalesChart(rows, "product_category", "Category Distribution"),
            TopChart(groupby_sum(rows, "item_name", "total_quantity"),
                     "Top 10 Products by Quantity"),
            MonthlyChart(rows, "Category Performance Over Time"),
            SalesChart(rows, "product_category", "Quantity vs. Price") >>
          \o (IF sel.category # "All Categories"
              THEN << SalesChart(category_df, "store_name", "Category by Store"),
                      TopChart(groupby_sum(category_df, "item_name",
                                           "total_quantity"), "Top Items") >>
              ELSE <<>>))

\* sales-report.py lines 609-748, the Time Trends tab. pd.concat of line 708
\* raises ValueError when the loop of lines 702-706 appended nothing.
time_trends_tab(rows) ==
    LET monthly == groupby_sum(rows, "month_year", "total_quantity")
        seasonal == complete_rows(rows, {"year", "month_name"})
        first == <<MonthlyChart(rows, "Monthly Quantity Sold")>>
                 \o (IF Cardinality(DOMAIN monthly) > 1
                     THEN <<Chart("Month-over-Month Quantity Growth", NoTable)>>
                     ELSE <<>>)
                 \o <<seasonal_quantity(rows, "Monthly Seasonal Patterns")>>
    IN  IF unique(seasonal, "year") = {}
        THEN Then(Rendered(first), Raise("ValueError", "Cumulative Quantity by Year"))
        ELSE Rendered(first \o
                 << Chart("Cumulative Quantity by Year", NoTable),
                    monthly_distribution(rows,
                        "Quantity Distribution Across Months") >>)

(* Floating point numbers: a fraction, an infinity or NaN *)
NaN == [k |-> "nan", num |-> 0, den |-> 1]
Inf == [k |-> "inf", num |-> 0, den |-> 1]
NegInf == [k |-> "-inf", num |-> 0, den |-> 1]
Fin(num, den) ==
    IF den < 0 THEN [k |-> "fin", num |-> 0 - num, den |-> 0 - den]
    ELSE [k |-> "fin", num |-> num, den |-> den]

\* monthly_quantity['total_quantity'].shift(1)
shift(series) ==
    [i \in 1..Len(series) |-> IF i = 1 THEN Absent ELSE Some(series[i - 1])]

\* the float64 division x / y of two integers
float_div(x, y) ==
    IF y # 0 THEN Fin(x, y)
    ELSE IF x > 0 THEN Inf
    ELSE IF x < 0 THEN NegInf
    ELSE NaN

\* f * 100
times_100(f) ==
    IF f.k = "fin" THEN [f EXCEPT !.num = @ * 100] ELSE f

\* x < y on two options of the year selector: false where one is NaN
year_lt(x, y) == x # NaNYear /\ y # NaNYear /\ x < y

RECURSIVE min_from(_, _)
\* Python's min(): the first element, replaced by each later one that is
\* less than it
min_from(least, rest) ==
    IF rest = <<>> THEN least
    ELSE min_from(IF year_lt(Head(rest), least) THEN Head(rest) ELSE least,
                  Tail(rest))
min(list) == min_from(Head(list), Tail(list))

\* months.index(selected_month)
month_idx(selected_month) ==
    (CHOOSE i \in 1..Len(months) : months[i] = selected_month) - 1

\* sales-report.py lines 206-222: previous_period_df, Absent where it stays
\* None. months[month_idx - 1] of the 0-based list is months[month_idx] here.
previous_period(df_rows, sel, years_list) ==
    IF sel.month # "All Months"
    THEN IF month_idx(sel.month) > 1
         THEN Some(where_eq(where_eq(df_rows, "year", sel.year), "month_name",
                            months[month_idx(sel.month)]))
         ELSE IF year_lt(min(years_list), sel.year)
              THEN Some(where_eq(where_eq(df_rows, "year", sel.year - 1),
                                 "month_name", "Dec"))
              ELSE Absent
    ELSE IF year_lt(min(years_list), sel.year)
         THEN Some(where_eq(df_rows, "year", sel.year - 1))
         ELSE Absent

\* df[col].mean(): NaN on no rows
mean(rows, col) == float_div(col_sum(rows, col), Len(rows))

\* lines 230-232: ((x - prev) / prev * 100) if prev > 0 else 0, prev finite
change(x, prev) ==
    IF prev.num > 0
    THEN IF x.k = "fin"
         THEN Fin((x.num * prev.den - prev.num * x.den) * 100, prev.num * x.den)
         ELSE x
    ELSE Fin(0, 1)

NA == [k |-> "N/A", num |-> 0, den |-> 1]

\* f"{change:+.1f}%" if change else "N/A": zero is the one falsy float
delta_text(f) == IF f.k = "fin" /\ f.num = 0 THEN NA ELSE f

KpiColumns ==
    [name |-> <<"Items Sold", "Avg. Price", "Total Sales">>,
     col  |-> <<"total_quantity", "average_price", "total_value">>]

\* the value of a KPI over a table: a sum, or the mean for the price
kpi_value(rows, i) ==
    IF KpiColumns.col[i] = "average_price" THEN mean(rows, "average_price")
    ELSE Fin(col_sum(rows, KpiColumns.col[i]), 1)

\* sales-report.py lines 201-254: the three metrics, each with its delta
\* where a previous period exists and has rows
kpis(df_rows, rows, sel, years_list) ==
    LET previous_period_df == previous_period(df_rows, sel, years_list)
        compared == previous_period_df # Absent /\ previous_period_df[1] # <<>>
    IN  [previous_period_df |-> previous_period_df,
         metrics |->
            [i \in 1..3 |->
                [name  |-> KpiColumns.name[i],
                 value |-> kpi_value(rows, i),
                 delta |-> IF compared
                           THEN Some(delta_text(change(kpi_value(rows, i),
                                    kpi_value(previous_period_df[1], i))))
                           ELSE Absent]]]

\* sales-report.py lines 194-762: what a run renders after the filter stage
sales_page(df_rows, rows, sel, years_list) ==
    LET r == Then(sales_overview_tab(rows),
             Then(store_performance_tab(rows, sel),
             Then(product_analytics_tab(rows, sel),
             Then(time_trends_tab(rows), Footer))))
    IN  [exc |-> r.exc, failed |-> r.failed,
         total_items |-> col_sum(rows, "total_quantity"),
         kpi |-> kpis(df_rows, rows, sel, years_list), charts |-> r.charts]

----------------------------------------------------------------------------
(* Harness: the runs of both scripts from the Normalizer to the footer,    *)
(* on the tables the API can cause and under every selection the sidebar   *)
(* offers. The first run shows the defaults of the selectors; every change *)
(* of a selector runs the script again on the same (cached) payload.       *)

MaxViewRecords ==
    2

ViewStoreKeys == << <<"A">>, <<"\t", "B">> >>

ViewItems ==
    { Item(Some("Tops"), Some("Summer"), Some("Men"), Absent, Five, Absent),
      Item(Absent, Some("Winter"), Absent, Absent, Three, Absent),
      Item(Some("Unknown"), Some("Summer"), Absent, Absent, Three, Absent),
      Item(Some("Jeans"), Absent, Some("Women"), Absent, Five, Absent) }

Feb2025 == <<"2", "0", "2", "5", "-", "0", "2">>

ViewSales ==
    { SalesRecord(StoreA \o Space, KimonoJacket, Some(Jan2025), 2, 100, 200),
      SalesRecord(StoreA, NotAString, Some(Feb2025), 3, 10, 30),
      SalesRecord(StoreB, Str(<<"C", "a", "p">>), Some(Dec2024), 4, 5, 20) }

\* the characters of the store names above, in code point order
CodePoints == <<" ", "A", "B", "S", "e", "o", "r", "t">>
ord(c) == CHOOSE i \in 1..Len(CodePoints) : CodePoints[i] = c

RECURSIVE str_le(_, _)
\* s <= t for two Python strings
str_le(s, t) ==
    IF s = <<>> THEN TRUE
    ELSE IF t = <<>> THEN FALSE
    ELSE IF Head(s) = Head(t) THEN str_le(Tail(s), Tail(t))
    ELSE ord(Head(s)) < ord(Head(t))

\* sorted(names)[0], the default of a selectbox over names
sorted_first(names) == CHOOSE s \in names : \A t \in names : str_le(s, t)

\* the filter stage that narrows df itself
inventory_filter_stage_inplace(rows, sel) ==
    [df |-> inventory_filter(rows, sel),
     filtered_df |-> inventory_filter(rows, sel)]

\* main.py lines 129-137: the tables df and filtered_df name afterwards
inventory_filter_stage(rows, sel) ==
    [df |-> rows, filtered_df |-> inventory_filter(rows, sel)]

\* sales-report.py lines 177-192: the tables df and filtered_df name afterwards
sales_filter_stage(rows, sel) ==
    [df |-> rows, filtered_df |-> sales_filter(rows, sel)]

Crashed(frame) ==
    [norm |-> frame, selected |-> NoSelection, filtered_df |-> <<>>,
     page |-> NoPage]

\* main.py lines 107-584 with the selectors at sel. The selectbox of line
\* 248 keeps its value while it is shown and starts from its first option.
inventory_run(data, sel) ==
    LET frame == process_store_data(data)
        stage == inventory_filter_stage(frame.rows, sel)
        shown == stage.filtered_df # <<>> /\ sel.store = AllStores
        s == [sel EXCEPT !.store_for_analysis =
                 IF shown /\ @ \in unique(stage.df, "store_name") THEN @
                 ELSE sorted_first(unique(frame.rows, "store_name"))]
    IN  IF frame.exc # "none" THEN Crashed(frame)
        ELSE [norm |-> [frame EXCEPT !.rows = stage.df],
              selected |-> s,
              filtered_df |-> stage.filtered_df,
              page |-> inventory_page(stage.df, stage.filtered_df, s)]

\* sales-report.py lines 133-762 with the selectors at sel
sales_run(data, sel, years_list) ==
    LET frame == Frame(sales_normalize(data, {}))
        stage == sales_filter_stage(frame.rows, sel)
    IN  IF frame.exc # "none" THEN Crashed(frame)
        ELSE [norm |-> [frame EXCEPT !.rows = stage.df],
              selected |-> sel,
              filtered_df |-> stage.filtered_df,
              page |-> sales_page(stage.df, stage.filtered_df, sel, years_list)]

\* the selectors as a first run shows them: index 0 of every selectbox
inventory_defaults ==
    [store |-> AllStores, category |-> "All Categories",
     collection |-> "All Collections", gender |-> "All Genders",
     year |-> 0, month |-> "", store_for_analysis |-> <<>>]

\* the cell of the year column as an option of the selector
year_option(row) == IF notna(row, "year") THEN row.year[1] ELSE NaNYear

RECURSIVE unique_list(_)
\* Series.unique(): the values in the order of their first appearance,
\* NaN once
unique_list(values) ==
    IF values = <<>> THEN <<>>
    ELSE LET before == unique_list(SubSeq(values, 1, Len(values) - 1))
             last == values[Len(values)]
         IN  IF \E i \in 1..Len(before) : before[i] = last THEN before
             ELSE Append(before, last)

\* sorted(df['year'].unique(), reverse=True), line 144: the years from the
\* largest down. Every comparison with NaN is false: of two options one of
\* which is NaN the sort makes one comparison and leaves them as unique()
\* gave them; where a list of more options holds a NaN its order depends on
\* the comparisons the sort of the Python build makes, and any order of
\* the options is taken as possible.
sorted_years(rows) ==
    LET found == unique_list([i \in 1..Len(rows) |-> year_option(rows[i])])
    IN  IF NaNYear \in years(rows) /\ Len(found) = 2 THEN {found}
        ELSE { list \in [1..Cardinality(years(rows)) -> years(rows)] :
                 /\ \A i, j \in DOMAIN list : i # j => list[i] # list[j]
                 /\ NaNYear \notin years(rows) =>
                       \A i, j \in DOMAIN list : i < j => list[i] > list[j] }

sales_defaults(rows, year) ==
    [store |-> AllStores, category |-> "All Categories",
     collection |-> "", gender |-> "",
     year |-> year, month |-> months[1],
     store_for_analysis |-> <<>>]

\* the options of a selector of the sidebar, by the field of `selected`
Options(a, rows) ==
    IF a = "inventory"
    THEN [store |-> all_stores(rows), category |-> all_categories(rows),
          collection |-> all_collections(rows), gender |-> all_genders(rows)]
    ELSE [store |-> all_stores(rows),
          category |-> all_product_categories(rows),
          year |-> years(rows),
          month |-> {months[i] : i \in 1..Len(months)}]

InitView ==
    /\ app \in {"inventory", "sales"}
    /\ RunInit
    /\ payload = <<>>
    /\ norm = NoFrame
    /\ raw_df = NoRawFrame
    /\ item_name = NotAString
    /\ label = ""
    /\ hpc = "build"
    /\ ViewIdle

\* the API holds one more store
AddViewStore ==
    /\ app = "inventory" /\ hpc = "build"
    /\ Len(payload) < Len(ViewStoreKeys)
    /\ payload' = Append(payload,
                     [key |-> ViewStoreKeys[Len(payload) + 1], items |-> <<>>])
    /\ UNCHANGED <<norm, raw_df, item_name, label, hpc>>
    /\ UNCHANGED runVars
    /\ UNCHANGED viewVars

\* the API holds one more record of its last store
AddViewItem ==
    /\ app = "inventory" /\ hpc = "build"
    /\ payload # <<>>
    /\ RecordCount(payload) < MaxViewRecords
    /\ \E it \in ViewItems : payload' = AppendItem(it)
    /\ UNCHANGED <<norm, raw_df, item_name, label, hpc>>
    /\ UNCHANGED runVars
    /\ UNCHANGED viewVars

\* the sales API holds one more record
AddSalesRecord ==
    /\ app = "sales" /\ hpc = "build"
    /\ Len(payload) < MaxViewRecords
    /\ \E rec \in ViewSales : payload' = Append(payload, rec)
    /\ UNCHANGED <<norm, raw_df, item_name, label, hpc>>
    /\ UNCHANGED runVars
    /\ UNCHANGED viewVars

Show(run) ==
    /\ norm' = run.norm
    /\ selected' = run.selected
    /\ filtered_df' = run.filtered_df
    /\ page' = run.page
    /\ hpc' = "done"
    /\ UNCHANGED <<payload, raw_df, item_name, label>>
    /\ UNCHANGED <<monthly_quantity, fig_growth, item_totals, top_products>>
    /\ UNCHANGED runVars

\* the first run of main.py on a payload that passes the guard of line 76
LoadInventory ==
    /\ app = "inventory" /\ hpc = "build"
    /\ ~halts_on(JsonObj(payload))
    /\ Show(inventory_run(payload, inventory_defaults))

\* the first run of sales-report.py on the list the API sent
LoadSales ==
    /\ app = "sales" /\ hpc = "build"
    /\ LET frame == Frame(sales_normalize(payload, {}))
       IN  IF frame.exc = "none"
           THEN \E years_list \in sorted_years(frame.rows) :
                   Show(sales_run(payload,
                                  sales_defaults(frame.rows, years_list[1]),
                                  years_list))
           ELSE Show(sales_run(payload, NoSelection, <<>>))

\* the user picks another option of a sidebar selector of main.py, or of
\* the store selectbox of the Store Analysis tab, and the script runs again
ChangeInventoryFacet ==
    /\ app = "inventory" /\ hpc = "done" /\ norm.exc = "none"
    /\ \/ \E f \in {"store", "category", "collection", "gender"} :
            \E v \in Options(app, norm.rows)[f] :
               /\ v # selected[f]
               /\ Show(inventory_run(payload, [selected EXCEPT ![f] = v]))
       \/ /\ filtered_df # <<>> /\ selected.store = AllStores
          /\ \E v \in unique(norm.rows, "store_name") :
               /\ v # selected.store_for_analysis
               /\ Show(inventory_run(payload,
                          [selected EXCEPT !.store_for_analysis = v]))

\* the user picks another option of a sidebar selector of sales-report.py
ChangeSalesFacet ==
    /\ app = "sales" /\ hpc = "done" /\ norm.exc = "none"
    /\ \E f \in {"year", "month", "store", "category"} :
         \E v \in Options(app, norm.rows)[f] :
            /\ v # selected[f]
            /\ \E years_list \in sorted_years(norm.rows) :
                  Show(sales_run(payload, [selected EXCEPT ![f] = v],
                                 years_list))

NextView ==
    \/ AddViewStore \/ AddViewItem \/ AddSalesRecord
    \/ LoadInventory \/ LoadSales
    \/ ChangeInventoryFacet \/ ChangeSalesFacet

SpecView == InitView /\ [][NextView]_vars

(***************************************************************************)
(* The sales dashboard over records with and without a month               *)
(***************************************************************************)
MaxDatedRecords ==
    2

\* two records with a month and one without the field
DatedSales ==
    { SalesRecord(StoreA \o Space, KimonoJacket, Some(Jan2025), 2, 100, 200),
      SalesRecord(StoreB, ToteBag, Some(Dec2024), 1, 50, 50),
      SalesRecord(StoreA, ToteBag, Absent, 3, 50, 150) }

InitDates == InitView /\ app = "sales"

\* the sales API holds one more record, with a month or without
AddDatedRecord ==
    /\ app = "sales" /\ hpc = "build"
    /\ Len(payload) < MaxDatedRecords
    /\ \E rec \in DatedSales : payload' = Append(payload, rec)
    /\ UNCHANGED <<norm, raw_df, item_name, label, hpc>>
    /\ UNCHANGED runVars
    /\ UNCHANGED viewVars

NextDates == AddDatedRecord \/ LoadSales \/ ChangeSalesFacet

SpecDates == InitDates /\ [][NextDates]_vars

----------------------------------------------------------------------------
(* Harness: the month-over-month growth chart of the Time Trends tab,       *)
(* src/sales-report.py lines 639-660, applied to the monthly totals that   *)
(* lines 615-618 hand it in calendar order. A float64 is a ratio num/den   *)
(* with den > 0, or one of inf, -inf and nan.                              *)

MaxMonths ==
    3

MonthlyTotals == {-5, 0, 10, 12, 15}

\* line 644 on one row: (total - previous) / previous * 100
growth_rate(total_quantity, previous_quantity) ==
    IF previous_quantity = Absent THEN NaN
    ELSE times_100(float_div(total_quantity - previous_quantity[1],
                             previous_quantity[1]))

\* lines 643-644: the two columns added to monthly_quantity
with_growth(series) ==
    [i \in 1..Len(series) |->
        [total_quantity    |-> series[i],
         previous_quantity |-> shift(series)[i],
         growth_rate       |-> growth_rate(series[i], shift(series)[i])]]

HasNaN(row) == row.previous_quantity = Absent \/ row.growth_rate.k = "nan"

\* monthly_quantity.dropna()
dropna(rows) == SelectSeq(rows, LAMBDA row : ~HasNaN(row))

InitGrowth ==
    /\ app = "sales"
    /\ RunInit
    /\ payload = <<>>
    /\ norm = NoFrame
    /\ raw_df = NoRawFrame
    /\ item_name = NotAString
    /\ label = ""
    /\ hpc = "build"
    /\ selected = NoSelection
    /\ filtered_df = <<>>
    /\ page = NoPage
    /\ monthly_quantity = <<>>
    /\ fig_growth = NoFigure
    /\ item_totals = <<>>
    /\ top_products = NoFigure

\* one more month in the filtered subset
AddMonth ==
    /\ hpc = "build"
    /\ Len(monthly_quantity) < MaxMonths
    /\ \E q \in MonthlyTotals : monthly_quantity' = Append(monthly_quantity, q)
    /\ UNCHANGED <<selected, filtered_df, page, fig_growth>>
    /\ UNCHANGED <<item_totals, top_products>>
    /\ UNCHANGED harnessVars
    /\ UNCHANGED runVars

\* lines 640-660
PlotGrowth ==
    /\ hpc = "build"
    /\ fig_growth' = IF Len(monthly_quantity) > 1
                     THEN [drawn |-> TRUE,
                           rows |-> dropna(with_growth(monthly_quantity))]
                     ELSE NoFigure
    /\ hpc' = "done"
    /\ UNCHANGED <<selected, filtered_df, page, monthly_quantity>>
    /\ UNCHANGED <<item_totals, top_products>>
    /\ UNCHANGED <<payload, norm, raw_df, item_name, label>>
    /\ UNCHANGED runVars

NextGrowth == AddMonth \/ PlotGrowth

SpecGrowth == InitGrowth /\ [][NextGrowth]_vars

----------------------------------------------------------------------------
(* Harness: the top-N cut of a table of group totals. The groups are       *)
(* numbered in the order groupby leaves them in.                           *)

MaxGroups ==
    11

GroupTotals == {1, 2}

InitTop ==
    /\ app = "sales"
    /\ RunInit
    /\ payload = <<>>
    /\ norm = NoFrame
    /\ raw_df = NoRawFrame
    /\ item_name = NotAString
    /\ label = ""
    /\ hpc = "build"
    /\ ViewIdle

\* one more group in the table
AddGroup ==
    /\ hpc = "build"
    /\ Len(item_totals) < MaxGroups
    /\ \E total \in GroupTotals : item_totals' = Append(item_totals, total)
    /\ UNCHANGED <<selected, filtered_df, page, monthly_quantity, fig_growth,
                   top_products>>
    /\ UNCHANGED harnessVars
    /\ UNCHANGED runVars

\* sales-report.py line 330 (and 499, 572, main.py 304) on the table
TakeTop ==
    /\ hpc = "build"
    /\ \E rows \in top_n(item_totals, [k \in DOMAIN item_totals |-> k], TopRows) :
          top_products' = [drawn |-> TRUE, rows |-> rows]
    /\ hpc' = "done"
    /\ UNCHANGED <<selected, filtered_df, page, monthly_quantity, fig_growth,
                   item_totals>>
    /\ UNCHANGED <<payload, norm, raw_df, item_name, label>>
    /\ UNCHANGED runVars

NextTop == AddGroup \/ TakeTop

SpecTop == InitTop /\ [][NextTop]_vars

(* Claims about the growth series (SpecGrowth) *)

\* entry e is the exact value of (v - u) / u * 100
IsGrowthOf(e, v, u) ==
    /\ u # 0
    /\ e.k = "fin"
    /\ e.num * u = (v - u) * 100 * e.den

\* C16: the growth chart of a series of n >= 2 monthly totals has exactly
\* n - 1 entries, entry i being (value[i+1] - value[i]) / value[i] * 100
\* for the months after the first, for every series, also one with a zero
\* total.
C16_GrowthSeries ==
    (hpc = "done" /\ Len(monthly_quantity) >= 2) =>
        /\ fig_growth.drawn
        /\ Len(fig_growth.rows) = Len(monthly_quantity) - 1
        /\ \A i \in 1..Len(fig_growth.rows) :
               IsGrowthOf(fig_growth.rows[i].growth_rate,
                          monthly_quantity[i + 1], monthly_quantity[i])

\* the same for the series whose totals before the last are not zero
C16_GrowthSeriesNonZero ==
    (/\ hpc = "done" /\ Len(monthly_quantity) >= 2
     /\ \A i \in 1..(Len(monthly_quantity) - 1) : monthly_quantity[i] # 0) =>
        /\ fig_growth.drawn
        /\ Len(fig_growth.rows) = Len(monthly_quantity) - 1
        /\ \A i \in 1..Len(fig_growth.rows) :
               IsGrowthOf(fig_growth.rows[i].growth_rate,
                          monthly_quantity[i + 1], monthly_quantity[i])

\* the example of the specification: [10, 15, 12] gives [50.0, -20.0]
C16_Example ==
    (hpc = "done" /\ monthly_quantity = <<10, 15, 12>>) =>
        /\ Len(fig_growth.rows) = 2
        /\ fig_growth.rows[1].growth_rate = Fin(500, 10)
        /\ fig_growth.rows[2].growth_rate = Fin(-300, 15)

----------------------------------------------------------------------------
(* Claims about the selectors, the filter stage and the tabs (SpecView) *)

\* a run got past the Normalizer and rendered its page
Viewed == hpc = "done" /\ norm.exc = "none"

\* the wildcard of a selector of the sidebar
Wildcard ==
    [store |-> AllStores, category |-> "All Categories",
     collection |-> "All Collections", gender |-> "All Genders",
     month |-> "All Months"]

\* the selectors of an application and the column each one filters
Facets(a) ==
    IF a = "inventory" THEN {"store", "category", "collection", "gender"}
    ELSE {"year", "month", "store", "category"}
WildcardFacets(a) == Facets(a) \ {"year"}
ColumnOf(a, f) ==
    IF f = "store" THEN "store_name"
    ELSE IF f = "month" THEN "month_name"
    ELSE IF f = "category" /\ a = "sales" THEN "product_category"
    ELSE f

AllWildcards == \A f \in WildcardFacets(app) : selected[f] = Wildcard[f]

\* C11 as stated: with every facet at its wildcard ("All Stores", "All
\* Categories", "All Collections", "All Genders", "All Months") the
\* filtered table equals the normalized table row for row.
C11_WildcardIsNoOp ==
    (Viewed /\ AllWildcards) => filtered_df = norm.rows

\* C11 amended: with every facet that has a wildcard at its wildcard, the
\* filtered table of the inventory dashboard equals the normalized table
\* row for row, and the filtered table of the sales dashboard holds, in
\* their order, the rows of the normalized table of the selected year.
C11_WildcardIsNoOpWithinYear ==
    (Viewed /\ AllWildcards) =>
        IF app = "inventory" THEN filtered_df = norm.rows
        ELSE filtered_df =
                 SelectSeq(norm.rows, LAMBDA row : row.year = Some(selected.year))

C11_Witness ==
    /\ Viewed /\ AllWildcards
    /\ app = "sales"
    /\ filtered_df # <<>>
    /\ Len(filtered_df) < Len(norm.rows)

\* a row has the selected value in the column of every facet that is not
\* at a wildcard
MatchesSelection(row) ==
    \A f \in Facets(app) :
        (f \in WildcardFacets(app) /\ selected[f] = Wildcard[f])
        \/ cell(row, ColumnOf(app, f)) = Some(selected[f])

\* C12: for every selection the filtered table holds exactly the rows of
\* the normalized table that have the selected value in the column of
\* every facet not at its wildcard, in the order of the normalized table.
C12_FacetsComposeByAnd ==
    Viewed => filtered_df = SelectSeq(norm.rows, MatchesSelection)

C12_Witness ==
    /\ Viewed /\ app = "inventory"
    /\ selected.store # AllStores
    /\ selected.category # "All Categories"
    /\ filtered_df # <<>>
    /\ Len(filtered_df) < Len(norm.rows)
    /\ \E i \in 1..Len(norm.rows) :
          /\ norm.rows[i].store_name = selected.store
          /\ norm.rows[i].category = Absent

\* the rows a selector alone lets through at one of its options
Constrained(f, v) ==
    IF f = "year" THEN where_eq(norm.rows, "year", v)
    ELSE facet(norm.rows, ColumnOf(app, f), v, Wildcard[f])

GroupedCharts ==
    {"Inventory by Store", "Inventory by Category", "Inventory by Collection",
     "Inventory by Gender"}

\* C15: for every table and every column used as a group key, the
\* per-group sums of count add up to the sum of count over the table.
C15_TotalsConserved ==
    (Viewed /\ app = "inventory") =>
        \A i \in 1..Len(page.charts) :
            (page.charts[i].name \in GroupedCharts
                /\ page.charts[i].kind = "chart")
            => FnSum(page.charts[i].data) = page.total_items

FooterRendered ==
    /\ page.charts # <<>>
    /\ page.charts[Len(page.charts)].name = "footer"

\* C17: a selection that yields no rows ends in a complete page, each of
\* its charts an empty chart or a placeholder, and no exception ends the
\* run.
C17_EmptySubsetIsHandled ==
    (Viewed /\ filtered_df = <<>>) => (page.exc = "none" /\ FooterRendered)

\* C18: whichever chart or section of a page fails to build, the failure
\* is shown as a warning in its place and everything after it is rendered.
C18_FailureCaughtPerChart ==
    Viewed =>
        /\ page.failed # "" =>
              \E i \in 1..Len(page.charts) :
                  /\ page.charts[i].name = page.failed
                  /\ page.charts[i].kind = "warning"
        /\ FooterRendered

Sentinels == {"Unknown", "Other"}

\* the columns that can hold a sentinel and have a selector
SentinelFacets(a) ==
    IF a = "inventory" THEN {"category", "collection", "gender"}
    ELSE {"category"}

\* the charts of the first tab that group the filtered table by a column
ChartOf(a, f) ==
    IF a = "sales" THEN "Quantity by Category"
    ELSE IF f = "category" THEN "Inventory by Category"
    ELSE IF f = "collection" THEN "Inventory by Collection"
    ELSE "Inventory by Gender"

\* row matches the selected value of every facet but f
MatchesOthers(row, f) ==
    \A g \in Facets(app) \ {f} :
        (g \in WildcardFacets(app) /\ selected[g] = Wildcard[g])
        \/ cell(row, ColumnOf(app, g)) = Some(selected[g])

InFiltered(row) == \E j \in 1..Len(filtered_df) : filtered_df[j] = row

FailureCached ==
    /\ app = "inventory"
    /\ cache.at >= 0
    /\ cache.value = EmptyObj
    /\ cache.msgs \cap FetchErrors # {}
    /\ now < cache.at + TTL_INVENTORY

\* C25: a call of fetch_store_data that fails stores the empty result in
\* the cache like any returned value; while that entry is younger than
\* 600 s every run takes the empty result from the cache, sends no HTTP
\* request whatever the API would answer now, and halts at the guard with
\* "No data available".
C25_FailureIsMemoized ==
    [][ /\ (app = "inventory" /\ pc = "fetch" /\ requested'
              /\ HttpErrorFailure(outcome')) =>
             /\ cache' = [at |-> now, value |-> EmptyObj, table |-> NoFrame,
                          msgs |-> ui' \cap FetchErrors]
             /\ cache'.msgs # {}
             /\ pc' = "guard"
        /\ (FailureCached /\ pc = "fetch" /\ pc' # "fetch") =>
             /\ ~requested'
             /\ outcome' = NoOutcome
             /\ stores_data' = EmptyObj
             /\ cache' = cache
             /\ pc' = "guard"
        /\ (FailureCached /\ pc = "guard" /\ pc' # "guard") =>
             /\ pc' = "stopped"
             /\ "No data available" \in ui'
             /\ ~normalized'
      ]_vars

\* a run that started 299 s or more after a failure was stored has halted on
\* the memoized empty result without a request
C25_Witness ==
    /\ FailureCached
    /\ now >= cache.at + 299
    /\ pc = "stopped"
    /\ ~requested
    /\ "No data available" \in ui

(***************************************************************************)
(* C21: sales records without a month                                      *)
(***************************************************************************)
\* the sales script has run on a list of records none of which has a month
NoMonthShown ==
    /\ app = "sales" /\ hpc = "done"
    /\ payload # <<>>
    /\ \A i \in 1..Len(payload) : payload[i].month = Absent

PlaceholderRow(row) ==
    /\ row.date = Some(PlaceholderDate)
    /\ row.year = Some(2025)
    /\ row.month_name = Some("Jan")
    /\ row.month_year = Some(<<"Jan", 2025>>)

\* the part of C21 about load_data: the warning is reported and every row
\* has the date 2025-01-01 with year 2025, month_name Jan and month_year
\* "Jan 2025", and 2025 is the one year of the selector
C21_PlaceholderRows ==
    NoMonthShown =>
        /\ "No 'month' field found in data" \in sales_normalize(payload, {}).msgs
        /\ norm.exc = "none"
        /\ Len(norm.rows) = Len(payload)
        /\ \A i \in 1..Len(norm.rows) : PlaceholderRow(norm.rows[i])
        /\ years(norm.rows) = {2025}

\* C21: when no sales record has a month, load_data reports a warning,
\* every row has the placeholder date 2025-01-01 and the fields derived
\* from it, and the run goes through the filters, the aggregates and every
\* tab to the footer without an exception.
C21_PlaceholderPipeline ==
    /\ C21_PlaceholderRows
    /\ NoMonthShown => (page.exc = "none" /\ FooterRendered)

\* with no month in the data a run fails only on a selection without rows
C21_FailsOnlyOnEmptySubset ==
    (NoMonthShown /\ filtered_df # <<>>) => (page.exc = "none" /\ FooterRendered)

(***************************************************************************)
(* C28: the selected year                                                  *)
(***************************************************************************)
\* the years some row of the table has
YearsPresent(rows) ==
    { rows[i].year[1] : i \in {j \in 1..Len(rows) : rows[j].year # Absent} }

\* C28: after every run of the sales dashboard the selected year is a year
\* some row of the normalized table has, on the first run the most recent
\* one, and the rows of that year are not none: a subset is empty only
\* where the month, store or category facet is set.
C28_SelectedYearIsPresent ==
    [][ (app = "sales" /\ hpc' = "done" /\ norm'.exc = "none") =>
           /\ selected'.year \in YearsPresent(norm'.rows)
           /\ hpc = "build" => selected'.year = Max(YearsPresent(norm'.rows))
           /\ where_eq(norm'.rows, "year", selected'.year) # <<>>
           /\ filtered_df' = <<>> =>
                \/ selected'.month # "All Months"
                \/ selected'.store # AllStores
                \/ selected'.category # "All Categories"
      ]_vars

\* the same where every record has a month, or none has
C28_SelectedYearIsPresentWhenDated ==
    [][ (app = "sales" /\ hpc' = "done" /\ norm'.exc = "none"
            /\ NaNYear \notin years(norm'.rows)) =>
           /\ selected'.year \in YearsPresent(norm'.rows)
           /\ hpc = "build" => selected'.year = Max(YearsPresent(norm'.rows))
           /\ where_eq(norm'.rows, "year", selected'.year) # <<>>
           /\ filtered_df' = <<>> =>
                \/ selected'.month # "All Months"
                \/ selected'.store # AllStores
                \/ selected'.category # "All Categories"
      ]_vars

(***************************************************************************)
(* C24: the aggregated rows match the selected facets                      *)
(***************************************************************************)
KeyOfChart ==
    [c \in GroupedCharts |->
        IF c = "Inventory by Store" THEN "store_name"
        ELSE IF c = "Inventory by Category" THEN "category"
        ELSE IF c = "Inventory by Collection" THEN "collection"
        ELSE "gender"]

StoreCharts == {"Top Collections", "Size Distribution"}
KeyOfStoreChart ==
    [c \in StoreCharts |-> IF c = "Top Collections" THEN "collection" ELSE "size"]

\* the rows of the normalized table that match every facet not at its
\* wildcard, and those of them in the store the Store Analysis tab shows
MatchingRows == SelectSeq(norm.rows, MatchesSelection)
MatchingRowsOfStore ==
    IF selected.store = AllStores
    THEN where_eq(MatchingRows, "store_name", selected.store_for_analysis)
    ELSE MatchingRows

\* C24: every chart of the inventory dashboard aggregates only rows that
\* match all selected non-wildcard facets: the charts of the Overview tab
\* sum over the matching rows, and the charts of the Store Analysis tab over
\* the matching rows of the store analysed, also when the store facet is at
\* "All Stores" and a category, collection or gender is selected.
C24_AggregatesMatchFacets ==
    (Viewed /\ app = "inventory") =>
        \A i \in 1..Len(page.charts) :
            LET c == page.charts[i]
            IN  /\ (c.kind = "chart" /\ c.name \in GroupedCharts) =>
                      c.data = groupby_sum(MatchingRows, KeyOfChart[c.name], "count")
                /\ (c.kind = "chart" /\ c.name \in StoreCharts) =>
                      c.data = groupby_sum(MatchingRowsOfStore,
                                           KeyOfStoreChart[c.name], "count")

\* the same for the Overview tab alone
C24_OverviewMatchesFacets ==
    (Viewed /\ app = "inventory") =>
        \A i \in 1..Len(page.charts) :
            LET c == page.charts[i]
            IN  (c.kind = "chart" /\ c.name \in GroupedCharts) =>
                    c.data = groupby_sum(MatchingRows, KeyOfChart[c.name], "count")

(***************************************************************************)
(* C27: the value handed to process_store_data                             *)
(***************************************************************************)
\* the run of main.py has passed the guard of line 76
PastGuard == app = "inventory" /\ (pc = "normalize" \/ normalized)

\* C27: the value fetch_store_data returned that passed the emptiness guard
\* is a mapping from store names to lists of item records; no list, number
\* or other value that is no mapping is handed to process_store_data, and
\* its loop over stores_data.items() does not fail on the type of the value.
C27_OnlyMappingsReachNormalizer ==
    PastGuard => (stores_data.k = "obj" /\ escaped # "AttributeError")

(***************************************************************************)
(* C26: the KPI deltas                                                     *)
(***************************************************************************)
\* the period before the selected one: its year and its month, "All Months"
\* for a whole year; year 0 where there is none
PeriodBefore ==
    LET smallest == CHOOSE y \in YearsPresent(norm.rows) :
                        \A z \in YearsPresent(norm.rows) : y <= z
    IN  IF selected.month = "All Months"
        THEN [year |-> selected.year - 1, month |-> "All Months"]
        ELSE IF selected.month # "Jan"
        THEN [year |-> selected.year,
              month |-> MonthAbbr[(CHOOSE m \in 1..12 :
                                      MonthAbbr[m] = selected.month) - 1]]
        ELSE IF selected.year > smallest
        THEN [year |-> selected.year - 1, month |-> "Dec"]
        ELSE [year |-> 0, month |-> "All Months"]

InPeriodBefore(row) ==
    /\ row.year = Some(PeriodBefore.year)
    /\ PeriodBefore.month # "All Months" =>
          row.month_name = Some(PeriodBefore.month)

MatchesStoreAndCategory(row) ==
    /\ selected.store # AllStores => row.store_name = selected.store
    /\ selected.category # "All Categories" =>
          row.product_category = selected.category

\* the deltas of the three metrics against a table of the previous period
DeltasAgainst(previous) ==
    \A i \in 1..3 :
        page.kpi.metrics[i].delta =
            IF previous # <<>>
            THEN Some(delta_text(change(kpi_value(filtered_df, i),
                                        kpi_value(previous, i))))
            ELSE Absent

\* C26: the delta of every KPI compares the total over the filtered rows
\* with the total over the rows of the period before (the month before in
\* the same year, December of the year before for January if the data has
\* an earlier year, the year before for "All Months") that satisfy the
\* selected store and product category; there is no delta where no such
\* row exists.
C26_DeltasCompareLikeWithLike ==
    (Viewed /\ app = "sales") =>
        DeltasAgainst(SelectSeq(norm.rows, LAMBDA row :
            InPeriodBefore(row) /\ MatchesStoreAndCategory(row)))

\* the same against all rows of the period before, whatever their store
\* and category
C26_DeltasAgainstWholePeriod ==
    (Viewed /\ app = "sales") =>
        /\ DeltasAgainst(SelectSeq(norm.rows, InPeriodBefore))
        /\ page.kpi.previous_period_df # Absent =>
              page.kpi.previous_period_df[1] = SelectSeq(norm.rows, InPeriodBefore)

(***************************************************************************)
(* C22: the order of the time tables                                       *)
(***************************************************************************)
MonthlyTrends ==
    {"Monthly Quantity Trend", "Monthly Quantity by Store",
     "Category Performance Over Time", "Monthly Quantity Sold"}

\* the number of the month of an abbreviation, 1 for Jan to 12 for Dec
MonthNumber(abbr) == CHOOSE m \in 1..12 : MonthAbbr[m] = abbr

\* a list holds each key of a table once
ListsKeysOf(order, table) ==
    /\ Len(order) = Cardinality(DOMAIN table)
    /\ {order[i] : i \in 1..Len(order)} = DOMAIN table

\* the value of every row of a list is below that of every later row
Ascending(order, value(_)) ==
    \A i, j \in 1..Len(order) : i < j => value(order[i]) < value(order[j])

\* C22: in every page of the sales dashboard each monthly trend table has
\* its rows in the order of the calendar dates of their month_year labels,
\* the seasonal table in the order of (year, number of the month), and the
\* per-month distribution in the order of the number of the month.
C22_CalendarOrder ==
    (Viewed /\ app = "sales") =>
        \A i \in 1..Len(page.charts) :
            LET c == page.charts[i]
            IN  /\ c.name \in MonthlyTrends =>
                      /\ ListsKeysOf(c.order, c.data)
                      /\ Ascending(c.order,
                            LAMBDA k : k[2] * 100 + MonthNumber(k[1]))
                /\ c.name = "Monthly Seasonal Patterns" =>
                      /\ ListsKeysOf(c.order, c.data)
                      /\ Ascending(c.order,
                            LAMBDA k : k[1] * 100 + MonthNumber(k[2]))
                /\ c.name = "Quantity Distribution Across Months" =>
                      /\ ListsKeysOf(c.order, c.data)
                      /\ Ascending(c.order, LAMBDA k : MonthNumber(k))

\* a page whose trend, seasonal and distribution tables hold January before
\* February, the two months str orders the other way round
C22_Witness ==
    /\ Viewed /\ app = "sales"
    /\ page.exc = "none"
    /\ \E i, j, k \in 1..Len(page.charts) :
          /\ page.charts[i].name = "Monthly Quantity Sold"
          /\ page.charts[i].order = << <<"Jan", 2025>>, <<"Feb", 2025>> >>
          /\ page.charts[j].name = "Monthly Seasonal Patterns"
          /\ page.charts[j].order = << <<2025, "Jan">>, <<2025, "Feb">> >>
          /\ page.charts[k].name = "Quantity Distribution Across Months"
          /\ page.charts[k].order = <<"Jan", "Feb">>

(***************************************************************************)
(* C23: the top-N tables                                                   *)
(***************************************************************************)
TopKept == {top_products.rows[i] : i \in 1..Len(top_products.rows)}

\* C23: a top-N table has at most 10 rows, each a group of the table it is
\* cut from and none twice, in the order of their totals from the largest
\* down, and no group left out has a larger total than a group kept.
C23_TopTen ==
    top_products.drawn =>
        /\ Len(top_products.rows) <= 10
        /\ TopKept \subseteq DOMAIN item_totals
        /\ Cardinality(TopKept) = Len(top_products.rows)
        /\ \A i, j \in 1..Len(top_products.rows) :
              i < j => item_totals[top_products.rows[i]]
                          >= item_totals[top_products.rows[j]]
        /\ \A out \in DOMAIN item_totals \ TopKept : \A kept \in TopKept :
              item_totals[out] <= item_totals[kept]

\* eleven groups of which one with a smaller total than some other is left
\* out and one is kept in spite of groups of its total before it
C23_Witness ==
    /\ top_products.drawn
    /\ Len(item_totals) = 11
    /\ Len(top_products.rows) = 10
    /\ \E out \in DOMAIN item_totals \ TopKept :
          /\ item_totals[out] = 1
          /\ \E kept \in TopKept : item_totals[kept] = 2
          /\ \E kept \in TopKept : kept > out /\ item_totals[kept] = 1

====
